---- MODULE Spec2Model ----
(***************************************************************************)
(* A model of scripts/ragFaqScraper.js (src/unnamed/part_000): the run of  *)
(* main() -- parseArgs, buildConfig, crawlSite with its batches of         *)
(* processPage tasks, fetchHtml, fetchRenderedHtml, buildFaqDataset and    *)
(* writeOutput -- and of its pure helpers; and of the admin videos         *)
(* endpoint (src/api/admin/videos.js, src/api/utils.js, part_002).         *)
(*                                                                         *)
(* The specifications share the variables:                                 *)
(*   Spec         one run of main() against a small site;                  *)
(*   SpecBatch    runs of main() over the values of --concurrency;         *)
(*   SpecOrigin   runs with room in the queue for every link of a page;    *)
(*   SpecPause    runs of main() over the values of --pauseMs;             *)
(*   SpecLive     runs in which the steps of the crawl are taken fairly;   *)
(*   SpecNorm     normalizeUrl applied once and twice to a bounded input;  *)
(*   SpecFaq      buildFaqDataset applied to a bounded list of pages;      *)
(*   SpecPage     extractPageContent applied to bounded documents;         *)
(*   SpecTruncate truncate applied to bounded texts and limits;            *)
(*   SpecRender   needsBrowserRender applied to bounded pages;             *)
(*   SpecApi      overlapping requests of an administrator;                *)
(*   SpecRate     requests of two clients over rate-limit windows.         *)
(*                                                                         *)
(* Data representation.                                                    *)
(*   A URL string is the record of its parsed parts: host (sequence of     *)
(*   labels), path (the WHATWG list of path segments: "/" is <<"">>,       *)
(*   "/b" is <<"b">>, "/b/" is <<"b","">>, "/b//" is <<"b","","">>),       *)
(*   query and frag ("" when absent).  ok = FALSE is a string new URL()    *)
(*   rejects.  All URLs have the same scheme.  After url.hash = '' the     *)
(*   serialisation url.toString() is one-to-one with these parts, so       *)
(*   string equality of normalized URLs is equality of the records.        *)
(*   A title or heading is a sequence of one-character strings (the fixed  *)
(*   pieces of the question templates are single tokens).  A text whose    *)
(*   content is not inspected (section content, summary, body text) is its *)
(*   length and its number of words.                                       *)
(***************************************************************************)
EXTENDS Integers, Sequences, FiniteSets, TLC

VARIABLES
  pc,            \* position of main(): see the actions
  argv,          \* process.argv.slice(2): sequence of tokens
  config,        \* the config built by buildConfig
  queue,         \* crawlSite: queue
  visited,       \* crawlSite: visited
  pages,         \* crawlSite: pages
  tasks,         \* crawlSite: the tasks of the current batch, in batch order
  openBrowsers,  \* browsers launched by puppeteer.launch and not yet closed
  fetchCount,    \* history: calls of fetchHtml, per URL passed
  renderCount,   \* history: calls of fetchRenderedHtml, per URL passed
  puppeteerSingleton, \* the module-level cache of require('puppeteer')
  puppeteerInstalled, \* environment: whether require('puppeteer') succeeds
  settled,       \* history: the URLs of the tasks of the batch that have
                 \* resolved with a page, in the order in which they did
  exitCode,      \* process.exitCode
  dataset,       \* the value returned by buildFaqDataset
  outputs,       \* number of writeOutput calls that wrote the file
  nIn,           \* SpecNorm: the input of normalizeUrl
  nOnce,         \* SpecNorm: normalizeUrl(nIn)
  nTwice,        \* SpecNorm: normalizeUrl(normalizeUrl(nIn))
  nOther,        \* SpecNorm: a second input, a variant of nIn
  nOtherOnce,    \* SpecNorm: normalizeUrl(nOther)
  pageHtml,      \* SpecPage: the document handed to extractPageContent
  needsRender,   \* SpecRender: what needsBrowserRender returned
  tText,         \* SpecTruncate: the text handed to truncate
  tMax,          \* SpecTruncate: the limit handed to truncate
  tOut,          \* SpecTruncate: what truncate returned
  now,           \* admin API: Date.now(), in milliseconds
  rateLimitBuckets, \* admin API: the Map of utils.js, ip -> {count, expiresAt}
  videosJson,    \* admin API: public/data/videos.json in the GitHub repository
  calls,         \* admin API: the handler invocations suspended at an await
  lastReply,     \* admin API: the response sent last
  admitted,      \* history: per ip, the times at which enforceRateLimit
                 \* returned true, as far back as one window
  arrived        \* history: number of requests received (SpecApi)

vars == <<pc, argv, config, queue, visited, pages, tasks, openBrowsers,
          fetchCount, renderCount, puppeteerSingleton, puppeteerInstalled,
          settled, exitCode, dataset, outputs, nIn, nOnce, nTwice, nOther, nOtherOnce,
          pageHtml, needsRender, tText, tMax, tOut, now, rateLimitBuckets, videosJson,
          calls, lastReply, admitted, arrived>>

crawlVars == <<queue, visited, pages, tasks, openBrowsers, fetchCount,
               renderCount, puppeteerSingleton, puppeteerInstalled, settled>>
normVars == <<nIn, nOnce, nTwice>>
pairVars == <<nOther, nOtherOnce>>
pageVars == <<pageHtml, needsRender>>
textVars == <<tText, tMax, tOut>>
mainVars == <<argv, config, crawlVars, exitCode, dataset, outputs>>
\* what a run of main() and buildFaqDataset leave alone
apiVars == <<now, rateLimitBuckets, videosJson, calls, lastReply, admitted,
            arrived>>
sideVars == <<normVars, pairVars, pageVars, textVars, apiVars>>
\* what the admin API leaves alone
crawlerVars == <<pc, mainVars, normVars, pairVars, pageVars, textVars>>

(***************************************************************************)
(* Sequence helpers                                                        *)
(***************************************************************************)
Front(s) == SubSeq(s, 1, Len(s) - 1)
Last(s) == s[Len(s)]
Range(s) == {s[i] : i \in 1..Len(s)}
Min(a, b) == IF a < b THEN a ELSE b
Max(a, b) == IF a > b THEN a ELSE b
IsPrefix(s, t) == Len(s) <= Len(t) /\ SubSeq(t, 1, Len(s)) = s

\* Array.from(new Set(seq)): the first occurrence of each element, in order
RECURSIVE Dedupe(_)
Dedupe(s) ==
  IF s = <<>> THEN <<>>
  ELSE LET f == Dedupe(Front(s))
       IN IF Last(s) \in Range(f) THEN f ELSE Append(f, Last(s))

RECURSIVE FilterNonNull(_, _)
FilterNonNull(s, null) ==
  IF s = <<>> THEN <<>>
  ELSE IF s[1] = null THEN FilterNonNull(Tail(s), null)
       ELSE <<s[1]>> \o FilterNonNull(Tail(s), null)

(***************************************************************************)
(* URLs                                                                    *)
(***************************************************************************)
\* the value null, and every string new URL() throws on
NullUrl == [ok |-> FALSE, host |-> <<>>, path |-> <<>>, query |-> "", frag |-> ""]

Url(h, p, q, f) == [ok |-> TRUE, host |-> h, path |-> p, query |-> q, frag |-> f]

\* normalizeUrl: new URL(input) (null when it throws); url.hash = '';
\* if the pathname is not "/" and ends with "/", its last character is cut
\* (slice(0, -1)), which drops the last, empty, path segment; toString().
normalizeUrl(input) ==
  IF ~input.ok THEN NullUrl
  ELSE LET url == [input EXCEPT !.frag = ""]
       IN IF url.path # <<"">> /\ Last(url.path) = ""
          THEN [url EXCEPT !.path = Front(url.path)]
          ELSE url

\* new URL(u).origin: scheme and host (the scheme is the same for all)
OriginOf(u) == u.host

\* link.startsWith(config.origin): a prefix test on the string; the origin
\* string ends with the host, so it holds for every host that continues it
startsWithOrigin(link, origin) == IsPrefix(origin, link.host)

\* getSpaViewId: new URL(url).searchParams.get('__spaView')
getSpaViewId(url) ==
  IF ~url.ok THEN ""
  ELSE IF url.query = "__spaView=timeline" THEN "timeline" ELSE ""

(***************************************************************************)
(* Command line and configuration                                          *)
(***************************************************************************)
\* DEFAULTS
DefaultMaxPages == 20
DefaultMaxFaqs == 80
DefaultConcurrency == 2
DefaultPauseMs == 400
DefaultMinSectionChars == 180

\* bound of the command lines tried: --maxPages 1 .. MaxPagesArg
MaxPagesArg == 3

\* One word of the command line: dd says whether it starts with "--", text
\* is what follows the "--" (arg.slice(2)) or, without "--", the whole word.
Tok(dd, text) == [dd |-> dd, text |-> text]

\* The value of args[key]: the next word, or true.  A missing key is
\* undefined.
ArgStr(s) == [isTrue |-> FALSE, s |-> s]
ArgTrue == [isTrue |-> TRUE, s |-> ""]
Has(args, key) == key \in DOMAIN args

\* parseArgs: the reduce over argv.  A word without "--" is skipped; for a
\* word with "--" the key is the whole rest of the word (no split at "="),
\* and the value is the next word when there is one that does not start
\* with "--", else true.
RECURSIVE parseArgsFrom(_, _, _)
parseArgsFrom(av, idx, acc) ==
  IF idx > Len(av) THEN acc
  ELSE LET arg == av[idx]
           key == arg.text
           hasNext == idx + 1 <= Len(av) /\ av[idx + 1].text # ""
           val == IF hasNext /\ ~av[idx + 1].dd
                  THEN ArgStr(av[idx + 1].text) ELSE ArgTrue
       IN IF ~arg.dd THEN parseArgsFrom(av, idx + 1, acc)
          ELSE parseArgsFrom(av, idx + 1,
                 [k \in DOMAIN acc \cup {key} |-> IF k = key THEN val ELSE acc[k]])

parseArgs(av) == parseArgsFrom(av, 1, <<>>)

\* Number(value): [finite, v].  Number(true) is 1, a decimal numeral, with
\* or without a minus sign, is its value, any other string of the command
\* lines tried is NaN.
NumberOf(value) ==
  IF value.isTrue THEN [finite |-> TRUE, v |-> 1]
  ELSE IF \E n \in 0..(MaxPagesArg + 10) : ToString(n) = value.s
       THEN [finite |-> TRUE,
             v |-> CHOOSE n \in 0..(MaxPagesArg + 10) :
                     ToString(n) = value.s]
  ELSE IF \E n \in 1..(MaxPagesArg + 10) : "-" \o ToString(n) = value.s
       THEN [finite |-> TRUE,
             v |-> 0 - (CHOOSE n \in 1..(MaxPagesArg + 10) :
                          "-" \o ToString(n) = value.s)]
       ELSE [finite |-> FALSE, v |-> 0]

\* a toNumber that takes every finite number, positive or not
toNumber_AnyFinite(args, key, fallback) ==
  IF ~Has(args, key) THEN fallback
  ELSE LET num == NumberOf(args[key])
       IN IF num.finite THEN num.v ELSE fallback

\* toNumber(args[key], fallback); Number(undefined) is NaN
toNumber(args, key, fallback) ==
  IF ~Has(args, key) THEN fallback
  ELSE LET num == NumberOf(args[key])
       IN IF num.finite /\ num.v > 0 THEN num.v ELSE fallback

\* The start URL of the command lines tried, as new URL() parses it
StartHost == <<"a", "com">>
ParseStart(text) ==
  IF text = "http://a.com" THEN Url(StartHost, <<"">>, "", "")
  ELSE IF text = "http://a.com/#top" THEN Url(StartHost, <<"">>, "", "top")
  ELSE NullUrl

\* seedInput.split(',') ... new URL(relative, origin): the candidates
SeedCandidates(text, origin) ==
  IF text = "/a" THEN <<Url(origin, <<"a">>, "", "")>>
  ELSE IF text = "/a/,/b//" THEN
    <<Url(origin, <<"a", "">>, "", ""), Url(origin, <<"b", "", "">>, "", "")>>
  ELSE <<>>

\* buildSeedUrls: the start URL, then each candidate normalized; the list
\* is normalized once more and deduplicated
buildSeedUrls(args, startUrl, origin) ==
  LET cands == IF Has(args, "seedPaths") /\ ~args["seedPaths"].isTrue
               THEN SeedCandidates(args["seedPaths"].s, origin) ELSE <<>>
      normed == [i \in 1..Len(cands) |-> normalizeUrl(cands[i])]
      seeds == <<startUrl>> \o FilterNonNull(normed, NullUrl)
      again == [i \in 1..Len(seeds) |-> normalizeUrl(seeds[i])]
  IN Dedupe(FilterNonNull(again, NullUrl))

\* parseSpaViews: the "id=Label" pairs
parseSpaViews(args) ==
  IF Has(args, "spaViews") /\ args["spaViews"].s = "timeline=Cronologia"
  THEN <<[id |-> "timeline", label |-> "Cronologia"]>>
  ELSE <<>>

\* buildSpaViewUrls: normalizeUrl(`${origin}/?__spaView=${id}`)
buildSpaViewUrls(spaViews, origin) ==
  FilterNonNull(
    [i \in 1..Len(spaViews) |->
       normalizeUrl(Url(origin, <<"">>, "__spaView=timeline", ""))],
    NullUrl)

\* deriveSiteName(origin): the host labels, capitalised (as one word each)
deriveSiteName(origin) == <<"A", " ", "C", "o", "m">>

NoConfig == [built |-> FALSE]

\* buildConfig threw: no --url, or a start URL that does not parse
buildConfigThrows(args) ==
  \/ ~Has(args, "url")
  \/ args["url"].isTrue
  \/ normalizeUrl(ParseStart(args["url"].s)) = NullUrl

\* Math.min(Math.max(toNumber(...), 1), 5)
ConcurrencyMax == 5
ConcurrencyMin == 1

\* a buildConfig that takes the number as it is
clampConcurrency_None(n) == n

clampConcurrency(n) == Min(Max(n, ConcurrencyMin), ConcurrencyMax)

buildConfig(args) ==
  LET normalizedStart == normalizeUrl(ParseStart(args["url"].s))
      origin == OriginOf(normalizedStart)
      spaViews == parseSpaViews(args)
  IN [built |-> TRUE,
      url |-> normalizedStart,
      origin |-> origin,
      siteName |-> deriveSiteName(origin),
      maxPages |-> toNumber(args, "maxPages", DefaultMaxPages),
      maxFaqs |-> toNumber(args, "maxFaqs", DefaultMaxFaqs),
      concurrency |->
        clampConcurrency(toNumber(args, "concurrency", DefaultConcurrency)),
      pauseMs |-> toNumber(args, "pauseMs", DefaultPauseMs),
      minSectionChars |-> toNumber(args, "minSectionChars", DefaultMinSectionChars),
      renderWithBrowser |->
        IF Has(args, "renderWithBrowser")
        THEN args["renderWithBrowser"] # ArgStr("false")
        ELSE TRUE,
      seedUrls |-> Dedupe(buildSeedUrls(args, normalizedStart, origin)
                          \o buildSpaViewUrls(spaViews, origin)),
      spaViews |-> spaViews]

\* The command lines tried
UrlArgs == {<<Tok(TRUE, "url"), Tok(FALSE, "http://a.com")>>}
RenderArgs ==
  { <<Tok(TRUE, "renderWithBrowser"), Tok(FALSE, "false")>>,
    <<Tok(TRUE, "renderWithBrowser=false")>> }
MaxPagesArgs ==
  {<<Tok(TRUE, "maxPages"), Tok(FALSE, ToString(n))>> : n \in 1..MaxPagesArg}
ConcurrencyArgs ==
  { <<Tok(TRUE, "concurrency"), Tok(FALSE, "1")>>,
    <<Tok(TRUE, "concurrency"), Tok(FALSE, "2")>> }
SeedArgs == {<<>>, <<Tok(TRUE, "seedPaths"), Tok(FALSE, "/a/,/b//")>>}
SpaArgs == {<<>>, <<Tok(TRUE, "spaViews"), Tok(FALSE, "timeline=Cronologia")>>}

ArgvSet ==
  {<<>>} \cup
  {u \o r \o m \o c \o s \o v :
     u \in UrlArgs, r \in RenderArgs, m \in MaxPagesArgs, c \in ConcurrencyArgs,
     s \in SeedArgs, v \in SpaArgs}

(***************************************************************************)
(* Texts, documents and content extraction                                 *)
(***************************************************************************)
\* A text that is only measured: its length and its number of words
Text(l, w) == [len |-> l, words |-> w]
EmptyText == Text(0, 0)

SnippetMax == 320
SummaryMax == 600
AnswerMax == 1200
SummaryPrimaryMin == 250

\* truncate(text, max) on a measured text: unchanged when empty or not longer
\* than max; else cut to max characters and " ..." appended (the branch without
\* a sentence boundary, nothing trimmed)
truncate(text, max) ==
  IF text.len = 0 \/ text.len <= max THEN text
  ELSE Text(max + 2, (text.words * max) \div text.len + 1)

\* contents.join(' ').trim()
RECURSIVE joinTexts(_)
joinTexts(ts) ==
  IF ts = <<>> THEN EmptyText
  ELSE IF Len(ts) = 1 THEN ts[1]
  ELSE LET r == joinTexts(Tail(ts))
       IN Text(ts[1].len + 1 + r.len, ts[1].words + r.words)

\* An HTML document, as cheerio sees it: the <title>; the h1-h3 elements in
\* document order, each with the text of its following siblings up to the
\* next heading; the <p> elements; the text of <main> and of <body>; the
\* a[href] targets in document order, resolved against the page
\* (NullUrl: new URL(raw, baseUrl) throws).  kind "empty" is the string '',
\* kind "bad" a document on which extraction throws.
Doc(kind, title, headed, paras, main, body, hrefs) ==
  [kind |-> kind, title |-> title, headed |-> headed, paras |-> paras,
   main |-> main, body |-> body, hrefs |-> hrefs]
EmptyHtml == Doc("empty", <<>>, <<>>, <<>>, EmptyText, EmptyText, <<>>)
BadDoc == Doc("bad", <<>>, <<>>, <<>>, EmptyText, EmptyText, <<>>)

\* the name the paragraph fallback gives its index-th paragraph (from 0), and
\* the name of the body fallback
KeyInsight(index) ==
  <<"K", "e", "y", " ", "I", "n", "s", "i", "g", "h", "t", " ", ToString(index + 1)>>
SiteOverview == <<"S", "i", "t", "e", " ", "O", "v", "e", "r", "v", "i", "e", "w">>

\* an extractSections that keeps a content of any length
longEnough_Always(content, minChars) == TRUE

\* the negation of: if (content.length < minChars) return
longEnough(content, minChars) == content.len >= minChars

\* extractSections
extractSections(doc, minChars) ==
  LET headedOk(i) == doc.headed[i].heading # <<>> /\ longEnough(doc.headed[i].content, minChars)
      RECURSIVE ByHeading(_)
      ByHeading(i) ==
        IF i > Len(doc.headed) THEN <<>>
        ELSE (IF headedOk(i)
              THEN <<[heading |-> doc.headed[i].heading,
                      content |-> doc.headed[i].content,
                      snippet |-> truncate(doc.headed[i].content, SnippetMax)]>>
              ELSE <<>>) \o ByHeading(i + 1)
      RECURSIVE ByParagraph(_)
      ByParagraph(i) ==
        IF i > Len(doc.paras) THEN <<>>
        ELSE (IF longEnough(doc.paras[i], minChars)
              THEN <<[heading |-> KeyInsight(i - 1),
                      content |-> doc.paras[i],
                      snippet |-> truncate(doc.paras[i], SnippetMax)]>>
              ELSE <<>>) \o ByParagraph(i + 1)
      s1 == ByHeading(1)
      s2 == IF s1 = <<>> THEN ByParagraph(1) ELSE s1
  IN IF s2 = <<>>
     THEN IF longEnough(doc.body, minChars)
          THEN <<[heading |-> SiteOverview,
                  content |-> doc.body,
                  snippet |-> truncate(doc.body, SnippetMax)]>>
          ELSE <<>>
     ELSE s2

\* a buildSummary without the fallback to the text of <main> or <body>
buildSummary_NoFallback(doc, sections) ==
  LET primary == joinTexts([i \in 1..Len(sections) |-> sections[i].content])
  IN IF primary.len > SummaryPrimaryMin THEN truncate(primary, SummaryMax)
     ELSE EmptyText

\* buildSummary
buildSummary(doc, sections) ==
  LET primary == joinTexts([i \in 1..Len(sections) |-> sections[i].content])
      fallback == IF doc.main.len > 0 THEN doc.main ELSE doc.body
      text == IF primary.len > SummaryPrimaryMin THEN primary ELSE fallback
  IN IF text.len = 0 THEN EmptyText ELSE truncate(text, SummaryMax)

\* extractLinks: each href resolved, hash cleared, normalized (once, n);
\* a Set in insertion order
extractLinks(doc, baseUrl) ==
  LET cleared == [i \in 1..Len(doc.hrefs) |->
                   IF doc.hrefs[i].ok THEN [doc.hrefs[i] EXCEPT !.frag = ""]
                   ELSE NullUrl]
      normed == [i \in 1..Len(cleared) |-> normalizeUrl(cleared[i])]
  IN CHOOSE links \in {Dedupe(FilterNonNull(n, NullUrl)) : n \in {normed}} : TRUE

\* the URL as a string of tokens (a page without <title> is titled by it)
UrlText(url) == <<"http://">> \o url.host \o <<"/">> \o url.path \o <<url.query>>

NoPage == [isNull |-> TRUE]

\* extractPageContent (description, which nothing reads, is left out)
extractPageContent(html, url, cfg) ==
  LET sections == extractSections(html, cfg.minSectionChars)
      summary == buildSummary(html, sections)
  IN [url |-> url,
      title |-> IF html.title # <<>> THEN html.title ELSE UrlText(url),
      summary |-> summary,
      sections |-> sections,
      links |-> extractLinks(html, url),
      wordCount |-> IF summary.len > 0 THEN summary.words ELSE html.body.words]

RenderSummaryMin == 160
RenderWordsMin == 40

\* a needsBrowserRender that asks for both a short summary and few words
needsBrowserRender_Both(page) ==
  /\ Len(page.sections) = 0
  /\ (page.summary.len < RenderSummaryMin /\ page.wordCount < RenderWordsMin)

\* needsBrowserRender
needsBrowserRender(page) ==
  /\ Len(page.sections) = 0
  /\ (page.summary.len < RenderSummaryMin \/ page.wordCount < RenderWordsMin)

(***************************************************************************)
(* The site crawled: what each URL answers                                 *)
(***************************************************************************)
SiteUrl(p) == Url(StartHost, p, "", "")
EvilHost == <<"a", "com", "evil">>

\* the links written in the full document of each page; the site has no
\* end: every page below /c links to a page one level further down
SiteHrefs(url) ==
  IF url.host # StartHost THEN <<>>
  ELSE IF url.query # "" THEN <<SiteUrl(<<"c">>)>>
  ELSE IF url.path = <<"">> THEN
    << SiteUrl(<<"a">>), Url(StartHost, <<"a">>, "", "top"),
       SiteUrl(<<"b", "", "">>), Url(EvilHost, <<"">>, "", ""), NullUrl >>
  ELSE IF url.path = <<"a">> THEN
    << SiteUrl(<<"">>), SiteUrl(<<"b">>), SiteUrl(<<"c", "">>) >>
  ELSE IF url.path = <<"b">> THEN << SiteUrl(<<"a">>), SiteUrl(<<"c">>) >>
  ELSE << SiteUrl(url.path \o <<"x">>) >>

\* the full document of a page: one heading with a long enough content
RichDoc(url) ==
  Doc("rich", <<"P">> \o url.path \o <<url.query>>,
      <<[heading |-> <<"O", "u", "r", " ", "M", "i", "s", "s", "i", "o", "n", ":">>,
         content |-> Text(200, 45)]>>,
      <<Text(200, 45)>>, EmptyText, Text(260, 50), SiteHrefs(url))

\* the shell an SPA serves before its scripts run: a little text, no links
ThinDoc(url) ==
  Doc("thin", <<"P">> \o url.path \o <<url.query>>, <<>>, <<Text(30, 5)>>,
      EmptyText, Text(30, 5), <<>>)

NoResponse == [isNull |-> TRUE]
Response(html, status) == [html |-> html, status |-> status]

\* what axios.get may answer (validateStatus: () => true): a network error or
\* timeout (fetchHtml returns null); a body that is no string (html ''); a
\* document with a status
FetchOutcomes(url) ==
  { NoResponse,
    Response(EmptyHtml, 200),
    Response(RichDoc(url), 200),
    Response(RichDoc(url), 404),
    Response(ThinDoc(url), 200),
    Response(BadDoc, 200) }

\* what page.content() may return
RenderOutcomes(url) == {RichDoc(url), ThinDoc(url)}

(***************************************************************************)
(* buildFaqDataset                                                         *)
(***************************************************************************)
UpperChars == <<"A", "B", "C", "D", "E", "F", "G", "H", "I", "J", "K", "L", "M",
                "N", "O", "P", "Q", "R", "S", "T", "U", "V", "W", "X", "Y", "Z">>
LowerChars == <<"a", "b", "c", "d", "e", "f", "g", "h", "i", "j", "k", "l", "m",
                "n", "o", "p", "q", "r", "s", "t", "u", "v", "w", "x", "y", "z">>
Digits == {"0", "1", "2", "3", "4", "5", "6", "7", "8", "9"}

\* the fixed pieces of the two question templates (the curly quotes of the
\* source are written '), and their lower case
QPageHead == "What does the '"
QPageMid == "' page cover on "
QSectionHead == "What does '"
QSectionMid == "' highlight on "

\* toLowerCase of one token
lowerTok(c) ==
  IF \E i \in 1..Len(UpperChars) : UpperChars[i] = c
  THEN LowerChars[CHOOSE i \in 1..Len(UpperChars) : UpperChars[i] = c]
  ELSE IF c = QPageHead THEN "what does the '"
  ELSE IF c = QSectionHead THEN "what does '"
  ELSE c

\* String.prototype.toLowerCase
toLowerCase(str) == [i \in 1..Len(str) |-> lowerTok(str[i])]

\* String.prototype.trim (blanks only)
RECURSIVE trim(_)
trim(str) ==
  IF str = <<>> THEN str
  ELSE IF str[1] = " " THEN trim(Tail(str))
  ELSE IF Last(str) = " " THEN trim(Front(str))
  ELSE str

\* heading.replace(/[:?]+$/g, '')
RECURSIVE stripPunctuation(_)
stripPunctuation(str) ==
  IF str # <<>> /\ Last(str) \in {":", "?"} THEN stripPunctuation(Front(str)) ELSE str

\* slugify: lower case, every run of characters outside [a-z0-9] becomes one
\* "-", and the "-" at either end are dropped
slugify(text) ==
  LET low == toLowerCase(trim(text))
      isAlnum(c) == c \in Range(LowerChars) \cup Digits
      RECURSIVE Dash(_)
      Dash(str) ==
        IF str = <<>> THEN <<>>
        ELSE LET r == Dash(Tail(str))
             IN IF isAlnum(str[1]) THEN <<str[1]>> \o r
                ELSE IF r # <<>> /\ r[1] = "-" THEN r
                ELSE <<"-">> \o r
      RECURSIVE Ends(_)
      Ends(str) ==
        IF str = <<>> THEN str
        ELSE IF str[1] = "-" THEN Ends(Tail(str))
        ELSE IF Last(str) = "-" THEN Ends(Front(str))
        ELSE str
  IN Ends(Dash(low))

pageQuestion(page, cfg) ==
  <<QPageHead>> \o page.title \o <<QPageMid>> \o cfg.siteName \o <<"?">>

baseHeadingOf(section) == trim(stripPunctuation(section.heading))

sectionQuestion(section, cfg) ==
  <<QSectionHead>> \o baseHeadingOf(section) \o <<QSectionMid>> \o cfg.siteName \o <<"?">>

\* pushFaq's key without the lower-casing
faqKey_CaseSensitive(question) == question

\* pushFaq: const key = entry.question.toLowerCase()
faqKey(question) == toLowerCase(question)

\* a pushFaq in which the last entry with a question replaces the first
pushFaq_LastWins(acc, entry) ==
  LET key == faqKey(entry.question)
      new == [entry EXCEPT !.answer = truncate(@, AnswerMax)]
  IN IF key \in acc.seen
     THEN [faqs |-> [i \in 1..Len(acc.faqs) |->
                      IF faqKey(acc.faqs[i].question) = key THEN new
                      ELSE acc.faqs[i]],
           seen |-> acc.seen]
     ELSE [faqs |-> Append(acc.faqs, new), seen |-> acc.seen \cup {key}]

\* pushFaq(entry) on the pair (faqs, seen)
pushFaq(acc, entry) ==
  LET key == faqKey(entry.question)
  IN IF key \in acc.seen THEN acc
     ELSE [faqs |-> Append(acc.faqs, [entry EXCEPT !.answer = truncate(@, AnswerMax)]),
           seen |-> acc.seen \cup {key}]

\* the entries one page asks pushFaq to add, in the order of the calls
pageEntries(page, cfg) ==
  (IF page.summary.len > 0
   THEN <<[question |-> pageQuestion(page, cfg), answer |-> page.summary,
           sourceUrl |-> page.url, tags |-> <<<<"page-overview">>>>]>>
   ELSE <<>>)
  \o [i \in 1..Len(page.sections) |->
        [question |-> sectionQuestion(page.sections[i], cfg),
         answer |-> page.sections[i].content,
         sourceUrl |-> page.url,
         tags |-> <<<<"section">>, slugify(baseHeadingOf(page.sections[i]))>>]]

RECURSIVE pushAll(_, _)
pushAll(acc, entries) ==
  IF entries = <<>> THEN acc ELSE pushAll(pushFaq(acc, entries[1]), Tail(entries))

RECURSIVE collectFaqs(_, _, _)
collectFaqs(acc, pgs, cfg) ==
  IF pgs = <<>> THEN acc
  ELSE collectFaqs(pushAll(acc, pageEntries(pgs[1], cfg)), Tail(pgs), cfg)

\* the cap left out
cappedFaqs_NoCap(faqs, maxFaqs) == faqs

\* faqs.slice(0, config.maxFaqs)
cappedFaqs(faqs, maxFaqs) == SubSeq(faqs, 1, Min(Len(faqs), maxFaqs))

RECURSIVE SumOf(_)
SumOf(ns) == IF ns = <<>> THEN 0 ELSE ns[1] + SumOf(Tail(ns))

\* buildMetrics (avgAnswerWords in tenths, coverageScore in hundredths, both
\* rounded half up)
buildMetrics(faqs, pgs) ==
  LET totalWords == SumOf([i \in 1..Len(faqs) |-> faqs[i].answer.words])
  IN [pagesCrawled |-> Len(pgs),
      sectionsExtracted |-> SumOf([i \in 1..Len(pgs) |-> Len(pgs[i].sections)]),
      totalFaqs |-> Len(faqs),
      avgAnswerWords |-> IF Len(faqs) > 0
                         THEN (20 * totalWords + Len(faqs)) \div (2 * Len(faqs))
                         ELSE 0,
      estimatedAnswerTokens |-> (13 * totalWords + 5) \div 10,
      coverageScore |-> (200 * Len(faqs) + Max(Len(pgs), 1)) \div (2 * Max(Len(pgs), 1))]

NoDataset == [built |-> FALSE]

\* buildFaqDataset (generatedAt, a clock reading, is left out)
buildFaqDataset(pgs, cfg) ==
  LET faqs == collectFaqs([faqs |-> <<>>, seen |-> {}], pgs, cfg).faqs
      capped == cappedFaqs(faqs, cfg.maxFaqs)
  IN [built |-> TRUE,
      source |-> [url |-> cfg.url, siteName |-> cfg.siteName],
      config |-> [maxPages |-> cfg.maxPages, maxFaqs |-> cfg.maxFaqs,
                  minSectionChars |-> cfg.minSectionChars],
      metrics |-> buildMetrics(capped, pgs),
      faqs |-> capped,
      crawlReport |-> [i \in 1..Len(pgs) |->
                         [url |-> pgs[i].url, title |-> pgs[i].title,
                          sections |-> Len(pgs[i].sections),
                          hasSummary |-> pgs[i].summary.len > 0]]]

(***************************************************************************)
(* processPage: the code between two awaits, as functions of the task      *)
(***************************************************************************)
NullResult == [isNull |-> TRUE]
NoHtml == [isNull |-> TRUE]

\* One processPage call.  st is where it is suspended:
\*   "fetching"    await fetchHtml (axios.get)
\*   "launching"   fetchRenderedHtml: await puppeteer.launch
\*   "navigating"  fetchRenderedHtml: newPage, setUserAgent, goto, the waits
\*   "content"     fetchRenderedHtml: await page.content()
\*   "closing"     fetchRenderedHtml: finally, await browser.close()
\*   "done"        settled, with result (null after .catch as well)
\* skipped: processPage returned null at once (URL null or visited);
\* rendered: "no" (renderer not called), "html" or "null" (what it returned,
\* once it has); launched: puppeteer.launch gave this call a browser;
\* pending: the value fetchRenderedHtml is about to return; threw: the task
\* rejected.
NewTask(url, nurl) ==
  [url |-> url, nurl |-> nurl, skipped |-> TRUE, st |-> "done",
   static |-> NoResponse,
   page |-> NoPage, renderCalled |-> FALSE, rendered |-> "no",
   launched |-> FALSE, pending |-> NoHtml, threw |-> FALSE,
   result |-> NullResult]

\* if (!page) return null; ... return { page, links }
finish(t) ==
  [t EXCEPT !.st = "done",
            !.result = IF t.page = NoPage THEN NullResult
                       ELSE [page |-> t.page, links |-> t.page.links]]

\* a processPage in which a null from the renderer discards the static page
pageAfterRender_NullDrops(page, renderedHtml, nurl, cfg) ==
  IF renderedHtml # NoHtml THEN extractPageContent(renderedHtml, nurl, cfg)
  ELSE NoPage

\* if (renderedHtml) { page = extractPageContent(renderedHtml, ...) }
pageAfterRender(page, renderedHtml, nurl, cfg) ==
  IF renderedHtml # NoHtml THEN extractPageContent(renderedHtml, nurl, cfg)
  ELSE page

\* processPage from the return of fetchRenderedHtml to its own return (the
\* page is extracted once and named)
afterRender(t, renderedHtml, cfg) ==
  CHOOSE r \in
    {finish([t EXCEPT !.page = page,
                      !.rendered = IF renderedHtml = NoHtml THEN "null" ELSE "html",
                      !.pending = NoHtml]) :
       page \in {pageAfterRender(t.page, renderedHtml, t.nurl, cfg)}} : TRUE

\* a processPage that does not look at the status of the static response
wantsRender_NoStatus(t, cfg) ==
  /\ cfg.renderWithBrowser
  /\ \/ getSpaViewId(t.nurl) # ""
     \/ t.page = NoPage
     \/ needsBrowserRender(t.page)

\* the condition under which processPage calls fetchRenderedHtml
wantsRender(t, cfg) ==
  /\ cfg.renderWithBrowser
  /\ \/ getSpaViewId(t.nurl) # ""
     \/ t.page = NoPage
     \/ needsBrowserRender(t.page)
     \/ (t.static # NoResponse /\ t.static.status >= 400)

\* processPage from the value of staticResponse to its next await or its
\* return; fetchRenderedHtml starts with loadPuppeteer(), which returns null
\* when require('puppeteer') throws.  Extraction throwing rejects the task,
\* which crawlSite's .catch turns into null.
afterStatic(t, static, cfg, installed) ==
  IF static # NoResponse /\ static.html.kind = "bad"
  THEN [t EXCEPT !.st = "done", !.static = static, !.threw = TRUE,
                 !.result = NullResult]
  ELSE LET page == IF static # NoResponse /\ static.html.kind # "empty"
                   THEN extractPageContent(static.html, t.nurl, cfg)
                   ELSE NoPage
           t1 == [t EXCEPT !.static = static, !.page = page]
       IN IF wantsRender(t1, cfg)
          THEN IF installed
               THEN [t1 EXCEPT !.st = "launching", !.renderCalled = TRUE]
               ELSE afterRender([t1 EXCEPT !.renderCalled = TRUE], NoHtml, cfg)
          ELSE finish(t1)

\* processPage's first test without the visited check
skipUrl_NoVisitedCheck(normalizedUrl, vis) == normalizedUrl = NullUrl

\* if (!normalizedUrl || visited.has(normalizedUrl)) return null
skipUrl(normalizedUrl, vis) == normalizedUrl = NullUrl \/ normalizedUrl \in vis

\* a processPage that does not add the URL to visited
markVisited_Not(vis, normalizedUrl) == vis

\* visited.add(normalizedUrl)
markVisited(vis, normalizedUrl) == vis \cup {normalizedUrl}

\* processPage from its call to its first await: the task and the visited set
processPageStart(url, vis, cfg, installed) ==
  LET normalizedUrl == normalizeUrl(url)
      skip == NewTask(url, normalizedUrl)
      t == [skip EXCEPT !.skipped = FALSE]
  IN IF skipUrl(normalizedUrl, vis) THEN [task |-> skip, visited |-> vis]
     ELSE [task |-> IF getSpaViewId(normalizedUrl) # ""
                    THEN afterStatic(t, NoResponse, cfg, installed)
                    ELSE [t EXCEPT !.st = "fetching"],
           visited |-> markVisited(vis, normalizedUrl)]

\* batch.map((url) => processPage(url, visited, config)...): the calls run one
\* after the other, each up to its first await
RECURSIVE startTasks(_, _, _, _)
startTasks(batch, vis, cfg, installed) ==
  IF batch = <<>> THEN [tasks |-> <<>>, visited |-> vis]
  ELSE LET first == processPageStart(batch[1], vis, cfg, installed)
           rest == startTasks(Tail(batch), first.visited, cfg, installed)
       IN [tasks |-> <<first.task>> \o rest.tasks, visited |-> rest.visited]

\* the history counters
Bump(f, u) == IF u \in DOMAIN f THEN [f EXCEPT ![u] = @ + 1] ELSE f @@ (u :> 1)
RECURSIVE BumpAll(_, _)
BumpAll(f, us) == IF us = <<>> THEN f ELSE BumpAll(Bump(f, us[1]), Tail(us))
Count(f, u) == IF u \in DOMAIN f THEN f[u] ELSE 0

\* the history of resolutions, after task t took a step
settledAfter(hist, t) ==
  IF t.st = "done" /\ t.result # NullResult THEN Append(hist, t.nurl) ELSE hist

\* the URLs the calls just started passed to fetchHtml / fetchRenderedHtml
fetchingUrls(ts) ==
  LET fetching(t) == t.st = "fetching"
      sel == SelectSeq(ts, fetching)
  IN [i \in 1..Len(sel) |-> sel[i].nurl]
renderingUrls(ts) ==
  LET rendering(t) == t.renderCalled
      sel == SelectSeq(ts, rendering)
  IN [i \in 1..Len(sel) |-> sel[i].nurl]

(***************************************************************************)
(* crawlSite: the step after Promise.all                                   *)
(***************************************************************************)
\* a join that yields nothing once one task has failed
batchResults_AllOrNothing(ts) ==
  IF \E i \in 1..Len(ts) : ts[i].result = NullResult THEN <<>>
  ELSE [i \in 1..Len(ts) |-> ts[i].result]

\* a join that yields the results in the order in which the tasks resolved
batchResults_AsSettled(ts) ==
  [k \in 1..Len(settled) |->
     ts[CHOOSE i \in 1..Len(ts) :
          ts[i].result # NullResult /\ ts[i].nurl = settled[k]].result]

\* (await Promise.all(tasks)).filter(Boolean): the results in batch order
batchResults(ts) ==
  FilterNonNull([i \in 1..Len(ts) |-> ts[i].result], NullResult)

\* links.forEach(...) on the queue
RECURSIVE enqueueLinks(_, _, _, _, _)
enqueueLinks(q, links, nPages, vis, cfg) ==
  IF links = <<>> THEN q
  ELSE LET link == links[1]
           skip == \/ nPages + Len(q) >= cfg.maxPages
                   \/ link \in vis
                   \/ link \in Range(q)
           q1 == IF ~skip /\ startsWithOrigin(link, cfg.origin)
                 THEN Append(q, link) ELSE q
       IN enqueueLinks(q1, Tail(links), nPages, vis, cfg)

\* results.forEach(({ page, links }) => { pages.push(page); links.forEach })
RECURSIVE collectResults(_, _, _, _, _)
collectResults(pgs, q, results, vis, cfg) ==
  IF results = <<>> THEN [pages |-> pgs, queue |-> q]
  ELSE LET pgs1 == Append(pgs, results[1].page)
           q1 == enqueueLinks(q, results[1].links, Len(pgs1), vis, cfg)
       IN collectResults(pgs1, q1, Tail(results), vis, cfg)

(***************************************************************************)
(* The admin API: the videos endpoint, its rate limit, its authentication  *)
(* and the videos.json file it keeps in a GitHub repository                *)
(***************************************************************************)
RATE_LIMIT_WINDOW_MS == 60 * 1000
RATE_LIMIT_MAX == 10

\* the Authorization header: absent; of another scheme; "Bearer " and a
\* token, which jwt.verify tests for its signature and then for its exp
NoHeader == [scheme |-> "", signed |-> FALSE, exp |-> 0]
BasicHeader == [scheme |-> "Basic", signed |-> FALSE, exp |-> 0]
Bearer(signed, exp) == [scheme |-> "Bearer", signed |-> signed, exp |-> exp]
Forever == 1000 * RATE_LIMIT_WINDOW_MS

\* a verifyToken that does not look at the expiry
verifyToken_IgnoresExpiry(authorization, t) ==
  IF authorization.scheme # "Bearer"
  THEN "Missing or invalid authorization header"
  ELSE IF ~authorization.signed THEN "Invalid token"
  ELSE ""

\* verifyToken: "" when jwt.verify returned the decoded token, else the
\* error of the 401 it sent
verifyToken(authorization, t) ==
  IF authorization.scheme # "Bearer"
  THEN "Missing or invalid authorization header"
  ELSE IF ~authorization.signed THEN "Invalid token"
  ELSE IF t >= authorization.exp THEN "Token expired"
  ELSE ""

\* an enforceRateLimit that never finds the bucket full
bucketFull_Never(bucket) == FALSE

\* bucket.count >= RATE_LIMIT_MAX
bucketFull(bucket) == bucket.count >= RATE_LIMIT_MAX

\* enforceRateLimit(meta, res): whether the request goes on, and the Map
enforceRateLimit(buckets, ip, t) ==
  IF ip \notin DOMAIN buckets \/ t > buckets[ip].expiresAt
  THEN [ok |-> TRUE,
        buckets |-> [i \in DOMAIN buckets \cup {ip} |->
                       IF i = ip
                       THEN [count |-> 1, expiresAt |-> t + RATE_LIMIT_WINDOW_MS]
                       ELSE buckets[i]]]
  ELSE IF bucketFull(buckets[ip]) THEN [ok |-> FALSE, buckets |-> buckets]
  ELSE [ok |-> TRUE, buckets |-> [buckets EXCEPT ![ip].count = @ + 1]]

\* body.url as a string of tokens: the last token of a YouTube URL is the
\* video id; a bare id is one token of 11 characters
VideoId == "dQw4w9WgXcQ"
WatchUrl == <<"https://", "www.youtube.com", "/watch?v=", VideoId>>
NoUrl == <<>>

\* /^[a-zA-Z0-9_-]{11}$/.test(url)
isVideoId(url) == url = <<VideoId>>
\* url.includes("youtube.com") || url.includes("youtu.be")
includesYouTube(url) ==
  \E i \in 1..Len(url) : url[i] \in {"www.youtube.com", "youtu.be"}
\* z.string().url(): the string parses as an absolute URL
isUrl(url) == url # <<>> /\ url[1] \in {"https://", "http://"}

\* youtubeVideoSchema.safeParse(body).success
youtubeVideoSchema(body) == isUrl(body.url)

\* extractYouTubeId: the id, or "" for null
extractYouTubeId(urlOrId) ==
  IF urlOrId = <<>> THEN ""
  ELSE IF isVideoId(urlOrId) THEN urlOrId[1]
  ELSE IF includesYouTube(urlOrId) /\ Last(urlOrId) = VideoId THEN VideoId
  ELSE ""

\* the body of a request: url (add YouTube), title (add local, update)
Body(url, title) == [url |-> url, title |-> title]
NoBody == Body(NoUrl, "")
\* localVideoSchema.safeParse(body).success: title is the required field
\* the bodies tried differ in
localVideoSchema(body) == body.title # ""

\* the id at the end of req.url, 0 for NaN
NoId == 0
Request(ip, method, authorization, id, body) ==
  [ip |-> ip, method |-> method, authorization |-> authorization, id |-> id,
   body |-> body]

\* a video of videos.json
Video(id, title, youtubeId) == [id |-> id, title |-> title, youtubeId |-> youtubeId]

\* videos.json: absent, or its content.  The sha GitHub reports for the
\* file is the blob hash of its content: equal contents have equal shas.
NoFile == [exists |-> FALSE, videos |-> <<>>]
File(videos) == [exists |-> TRUE, videos |-> videos]
NoSha == [isNull |-> TRUE]
Sha(videos) == [isNull |-> FALSE, of |-> videos]

\* readVideosJson: the content and its sha; [] and null on a 404
readVideosJson(file) ==
  IF file.exists THEN [videos |-> file.videos, sha |-> Sha(file.videos)]
  ELSE [videos |-> <<>>, sha |-> NoSha]

\* a store that takes every write, whatever the sha
writeAccepted_Always(file, sha) == TRUE

\* createOrUpdateFileContents succeeds: the sha passed is the one of the
\* file as it is now; no sha creates the file and is refused when it exists
writeAccepted(file, sha) ==
  IF file.exists THEN sha = Sha(file.videos) ELSE sha = NoSha

\* getNextVideoId, on the file as it is when it reads it
getNextVideoId(file) ==
  LET videos == readVideosJson(file).videos
      ids == {videos[i].id : i \in 1..Len(videos)}
  IN IF Len(videos) = 0 THEN 1
     ELSE (CHOOSE m \in ids : \A k \in ids : k <= m) + 1

\* videos.findIndex((v) => v.id === videoId): 0 for -1
findIndex(videos, videoId) ==
  LET at == {i \in 1..Len(videos) : videos[i].id = videoId}
  IN IF at = {} THEN 0 ELSE CHOOSE i \in at : \A j \in at : i <= j

\* videos.splice(videoIndex, 1)
splice(videos, videoIndex) ==
  SubSeq(videos, 1, videoIndex - 1) \o SubSeq(videos, videoIndex + 1, Len(videos))

\* a response: what was asked, when, the status and error sent, whether
\* verifyToken was called, whether a handle* function was called, and how
\* often the invocation read and wrote (or tried to write) videos.json
NoReply == [isNull |-> TRUE]
Reply(req, at, status, error, authChecked, routed, reads, writes) ==
  [req |-> req, at |-> at, status |-> status, error |-> error,
   authChecked |-> authChecked, routed |-> routed, reads |-> reads,
   writes |-> writes]

\* a handler invocation suspended at an await; st is the await:
\*   "metadata"  handlePostYouTube: await getMetadataFromUrl(url)
\*   "read"      await readVideosJson()
\*   "nextId"    await getNextVideoId()
\*   "write"     await writeVideosJson(videos, sha, commitMessage)
\* stale (history): another invocation has committed since this one read
\* the sha it holds
Call(req, at, st) ==
  [req |-> req, at |-> at, st |-> st, videos |-> <<>>, sha |-> NoSha,
   newVideo |-> Video(0, "", ""), reads |-> 0, writes |-> 0, stale |-> FALSE]

\* the handler from its call to the response it sends at once (reply) or to
\* its first await (call), after enforceRateLimit returned true
routed(req, at) ==
  LET answer(status, error) ==
        [reply |-> Reply(req, at, status, error, TRUE, TRUE, 0, 0)]
  IN IF req.method = "GET" THEN [call |-> Call(req, at, "read")]
     ELSE IF req.method = "POST" THEN
       IF req.body.url # <<>> /\ (includesYouTube(req.body.url) \/ isVideoId(req.body.url))
       THEN IF ~youtubeVideoSchema(req.body) THEN answer(400, "Invalid input")
            ELSE IF extractYouTubeId(req.body.url) = ""
                 THEN answer(400, "Invalid YouTube URL or video ID")
                 ELSE [call |-> Call(req, at, "metadata")]
       ELSE IF ~localVideoSchema(req.body) THEN answer(400, "Invalid input")
            ELSE [call |-> Call(req, at, "read")]
     ELSE IF req.method \in {"PUT", "DELETE"} THEN
       IF req.id = NoId THEN answer(400, "Invalid video ID")
       ELSE [call |-> Call(req, at, "read")]
     ELSE [reply |-> Reply(req, at, 405, "Method Not Allowed", TRUE, FALSE, 0, 0)]

\* module.exports = async function handler(req, res), up to there
handler(req, at, buckets) ==
  IF req.method = "OPTIONS"
  THEN [reply |-> Reply(req, at, 204, "", FALSE, FALSE, 0, 0), buckets |-> buckets,
        admitted |-> FALSE]
  ELSE LET limit == enforceRateLimit(buckets, req.ip, at)
           error == verifyToken(req.authorization, at)
       IN IF ~limit.ok
          THEN [reply |-> Reply(req, at, 429, "Too many requests", FALSE, FALSE, 0, 0),
                buckets |-> limit.buckets, admitted |-> FALSE]
          ELSE IF error # ""
          THEN [reply |-> Reply(req, at, 401, error, TRUE, FALSE, 0, 0),
                buckets |-> limit.buckets, admitted |-> TRUE]
          ELSE routed(req, at) @@ [buckets |-> limit.buckets, admitted |-> TRUE]

(***************************************************************************)
(* The values of the variables a specification does not use                *)
(***************************************************************************)
NormIdle ==
  /\ nIn = NullUrl
  /\ nOnce = NullUrl
  /\ nTwice = NullUrl
  /\ nOther = NullUrl
  /\ nOtherOnce = NullUrl
PageIdle == pageHtml = EmptyHtml /\ needsRender = FALSE
TextIdle == tText = <<>> /\ tMax = 0 /\ tOut = <<>>
ApiIdle ==
  /\ now = 0
  /\ rateLimitBuckets = <<>>
  /\ videosJson = NoFile
  /\ calls = <<>>
  /\ lastReply = NoReply
  /\ admitted = <<>>
  /\ arrived = 0
SideIdle == NormIdle /\ PageIdle /\ TextIdle /\ ApiIdle
\* no crawl under way: crawlSite's locals and the renderer's state
CrawlIdle ==
  /\ queue = <<>>
  /\ visited = {}
  /\ pages = <<>>
  /\ tasks = <<>>
  /\ openBrowsers = {}
  /\ fetchCount = <<>>
  /\ renderCount = <<>>
  /\ puppeteerSingleton = FALSE
  /\ settled = <<>>
  /\ puppeteerInstalled = FALSE
MainIdle ==
  /\ argv = <<>>
  /\ config = NoConfig
  /\ CrawlIdle
  /\ exitCode = 0
  /\ dataset = NoDataset
  /\ outputs = 0

(***************************************************************************)
(* Spec: one run of main()                                                 *)
(***************************************************************************)
Init ==
  /\ pc = "start"
  /\ argv \in ArgvSet
  /\ puppeteerInstalled \in BOOLEAN
  /\ config = NoConfig
  /\ queue = <<>>
  /\ visited = {}
  /\ pages = <<>>
  /\ tasks = <<>>
  /\ openBrowsers = {}
  /\ fetchCount = <<>>
  /\ renderCount = <<>>
  /\ puppeteerSingleton = FALSE
  /\ settled = <<>>
  /\ exitCode = 0
  /\ dataset = NoDataset
  /\ outputs = 0
  /\ SideIdle

\* main: parseArgs, buildConfig (its throw is caught: exit code 1), and
\* crawlSite up to its loop
MainStart ==
  /\ pc = "start"
  /\ LET args == parseArgs(argv)
     IN IF buildConfigThrows(args)
        THEN /\ pc' = "error"
             /\ exitCode' = 1
             /\ UNCHANGED <<config, queue>>
        ELSE /\ config' = buildConfig(args)
             /\ queue' = config'.seedUrls
             /\ pc' = "loop"
             /\ UNCHANGED exitCode
  /\ UNCHANGED <<argv, visited, pages, tasks, openBrowsers, fetchCount,
                 renderCount, puppeteerSingleton, settled, puppeteerInstalled, dataset,
                 outputs, sideVars>>

\* a splice that leaves the batch in the queue
restOfQueue_Kept(q, n) == q

\* what queue.splice(0, n) leaves in the queue
restOfQueue(q, n) == SubSeq(q, n + 1, Len(q))

loopGuard == Len(queue) > 0 /\ Len(pages) < config.maxPages

\* one turn of the while loop up to await Promise.all(tasks)
StartBatch ==
  /\ pc = "loop"
  /\ loopGuard
  /\ LET n == Min(config.concurrency, Len(queue))
         batch == SubSeq(queue, 1, n)
         started == startTasks(batch, visited, config, puppeteerInstalled)
     IN /\ queue' = restOfQueue(queue, n)
        /\ tasks' = started.tasks
        /\ visited' = started.visited
        /\ fetchCount' = BumpAll(fetchCount, fetchingUrls(started.tasks))
        /\ renderCount' = BumpAll(renderCount, renderingUrls(started.tasks))
        /\ settled' = <<>>
        /\ puppeteerSingleton' =
             (puppeteerSingleton \/
              (puppeteerInstalled /\ \E i \in 1..Len(started.tasks) :
                                        started.tasks[i].renderCalled))
  /\ pc' = "await"
  /\ UNCHANGED <<argv, config, pages, openBrowsers, puppeteerInstalled,
                 exitCode, dataset, outputs, sideVars>>

\* fetchHtml returns to processPage, which runs to its next await or returns
FetchReturn(i) ==
  /\ pc = "await"
  /\ i \in 1..Len(tasks)
  /\ tasks[i].st = "fetching"
  /\ \E static \in FetchOutcomes(tasks[i].nurl) :
       LET t == afterStatic(tasks[i], static, config, puppeteerInstalled)
       IN /\ tasks' = [tasks EXCEPT ![i] = t]
          /\ settled' = settledAfter(settled, t)
          /\ renderCount' = IF t.renderCalled THEN Bump(renderCount, t.nurl)
                            ELSE renderCount
          /\ puppeteerSingleton' =
               (puppeteerSingleton \/ (puppeteerInstalled /\ t.renderCalled))
  /\ UNCHANGED <<pc, argv, config, queue, visited, pages, openBrowsers,
                 fetchCount, puppeteerInstalled, exitCode, dataset, outputs,
                 sideVars>>

\* puppeteer.launch settles: a browser, or a rejection that the catch turns
\* into null (browser is still undefined: nothing to close)
LaunchBrowser(i) ==
  /\ pc = "await"
  /\ i \in 1..Len(tasks)
  /\ tasks[i].st = "launching"
  /\ \/ /\ openBrowsers' = openBrowsers \cup {tasks[i].nurl}
        /\ tasks' = [tasks EXCEPT ![i].st = "navigating", ![i].launched = TRUE]
        /\ UNCHANGED settled
     \/ /\ tasks' = [tasks EXCEPT ![i] = afterRender(tasks[i], NoHtml, config)]
        /\ settled' = settledAfter(settled, tasks'[i])
        /\ UNCHANGED openBrowsers
  /\ UNCHANGED <<pc, argv, config, queue, visited, pages, fetchCount,
                 renderCount, puppeteerSingleton, puppeteerInstalled, exitCode,
                 dataset, outputs, sideVars>>

\* newPage, setUserAgent, the goto of either navigation strategy and the
\* waits (whose own timeouts are swallowed): all done, or one of them throws
\* (navigation error, timeout) and the catch block makes the result null
Navigate(i) ==
  /\ pc = "await"
  /\ i \in 1..Len(tasks)
  /\ tasks[i].st = "navigating"
  /\ \/ tasks' = [tasks EXCEPT ![i].st = "content"]
     \/ tasks' = [tasks EXCEPT ![i].st = "closing", ![i].pending = NoHtml]
  /\ UNCHANGED <<pc, argv, config, queue, visited, pages, openBrowsers,
                 fetchCount, renderCount, puppeteerSingleton, settled,
                 puppeteerInstalled, exitCode, dataset, outputs, sideVars>>

\* page.content() settles: the HTML, or a throw
PageContent(i) ==
  /\ pc = "await"
  /\ i \in 1..Len(tasks)
  /\ tasks[i].st = "content"
  /\ \/ \E html \in RenderOutcomes(tasks[i].nurl) :
          tasks' = [tasks EXCEPT ![i].st = "closing", ![i].pending = html]
     \/ tasks' = [tasks EXCEPT ![i].st = "closing", ![i].pending = NoHtml]
  /\ UNCHANGED <<pc, argv, config, queue, visited, pages, openBrowsers,
                 fetchCount, renderCount, puppeteerSingleton, settled,
                 puppeteerInstalled, exitCode, dataset, outputs, sideVars>>

\* the finally block without the close
browsersAfterFinally_Leak(open, nurl) == open

\* finally { if (browser) await browser.close() }
browsersAfterFinally(open, nurl) == open \ {nurl}

\* browser.close() settles, fetchRenderedHtml returns its pending value and
\* processPage runs to its return
CloseBrowser(i) ==
  /\ pc = "await"
  /\ i \in 1..Len(tasks)
  /\ tasks[i].st = "closing"
  /\ openBrowsers' = browsersAfterFinally(openBrowsers, tasks[i].nurl)
  /\ \E t \in {afterRender(tasks[i], tasks[i].pending, config)} :
       /\ tasks' = [tasks EXCEPT ![i] = t]
       /\ settled' = settledAfter(settled, t)
  /\ UNCHANGED <<pc, argv, config, queue, visited, pages, fetchCount,
                 renderCount, puppeteerSingleton, puppeteerInstalled, exitCode,
                 dataset, outputs, sideVars>>

\* a join that resolves as soon as one task has
allSettled_Race == \E i \in 1..Len(tasks) : tasks[i].st = "done"

allSettled == \A i \in 1..Len(tasks) : tasks[i].st = "done"

\* Promise.all resolves: the results are pushed and their links enqueued
CollectBatch ==
  /\ pc = "await"
  /\ allSettled
  /\ LET r == collectResults(pages, queue, batchResults(tasks), visited, config)
     IN /\ pages' = r.pages
        /\ queue' = r.queue
  /\ tasks' = <<>>
  /\ pc' = IF config.pauseMs > 0 THEN "pause" ELSE "loop"
  /\ UNCHANGED <<argv, config, visited, openBrowsers, fetchCount,
                 renderCount, puppeteerSingleton, settled, puppeteerInstalled, exitCode,
                 dataset, outputs, sideVars>>

\* await delay(config.pauseMs) resolves
PauseDone ==
  /\ pc = "pause"
  /\ pc' = "loop"
  /\ UNCHANGED <<argv, config, crawlVars, exitCode, dataset, outputs, sideVars>>

\* main without the test for an empty crawl
crawlIsEmpty_Never(pgs) == FALSE

\* if (crawlResult.pages.length === 0) throw
crawlIsEmpty(pgs) == Len(pgs) = 0

\* the loop ends, crawlSite returns and main tests the result
CrawlReturn ==
  /\ pc = "loop"
  /\ ~loopGuard
  /\ IF crawlIsEmpty(pages)
     THEN pc' = "error" /\ exitCode' = 1
     ELSE pc' = "build" /\ UNCHANGED exitCode
  /\ UNCHANGED <<argv, config, crawlVars, dataset, outputs, sideVars>>

\* const dataset = buildFaqDataset(crawlResult.pages, config)
BuildDataset ==
  /\ pc = "build"
  /\ dataset' = buildFaqDataset(pages, config)
  /\ pc' = "write"
  /\ UNCHANGED <<argv, config, crawlVars, exitCode, outputs, sideVars>>

\* await writeOutput(...): written, or an fs error caught by main
WriteOutput ==
  /\ pc = "write"
  /\ \/ pc' = "done" /\ outputs' = outputs + 1 /\ UNCHANGED exitCode
     \/ pc' = "error" /\ exitCode' = 1 /\ UNCHANGED outputs
  /\ UNCHANGED <<argv, config, crawlVars, dataset, sideVars>>

Next ==
  \/ MainStart
  \/ StartBatch
  \/ \E i \in 1..ConcurrencyMax : FetchReturn(i)
  \/ \E i \in 1..ConcurrencyMax : LaunchBrowser(i)
  \/ \E i \in 1..ConcurrencyMax : Navigate(i)
  \/ \E i \in 1..ConcurrencyMax : PageContent(i)
  \/ \E i \in 1..ConcurrencyMax : CloseBrowser(i)
  \/ CollectBatch
  \/ PauseDone
  \/ CrawlReturn
  \/ BuildDataset
  \/ WriteOutput

Spec == Init /\ [][Next]_vars

(***************************************************************************)
(* SpecBatch: runs of main() over the values of --concurrency              *)
(***************************************************************************)
\* --concurrency with a numeral below, inside and above the range, with a
\* word that is no number, without a value, and left out
ConcurrencyValues ==
  { <<>>,
    <<Tok(TRUE, "concurrency")>>,
    <<Tok(TRUE, "concurrency"), Tok(FALSE, "0")>>,
    <<Tok(TRUE, "concurrency"), Tok(FALSE, "2")>>,
    <<Tok(TRUE, "concurrency"), Tok(FALSE, "9")>>,
    <<Tok(TRUE, "concurrency"), Tok(FALSE, "many")>> }

\* three seed URLs, so that a batch can be smaller than the queue
BatchArgvSet ==
  {<<Tok(TRUE, "url"), Tok(FALSE, "http://a.com"),
     Tok(TRUE, "maxPages"), Tok(FALSE, ToString(MaxPagesArg)),
     Tok(TRUE, "seedPaths"), Tok(FALSE, "/a/,/b//")>> \o c :
     c \in ConcurrencyValues}

InitBatch ==
  /\ pc = "start"
  /\ argv \in BatchArgvSet
  /\ puppeteerInstalled \in BOOLEAN
  /\ config = NoConfig
  /\ queue = <<>>
  /\ visited = {}
  /\ pages = <<>>
  /\ tasks = <<>>
  /\ openBrowsers = {}
  /\ fetchCount = <<>>
  /\ renderCount = <<>>
  /\ puppeteerSingleton = FALSE
  /\ settled = <<>>
  /\ exitCode = 0
  /\ dataset = NoDataset
  /\ outputs = 0
  /\ SideIdle

SpecBatch == InitBatch /\ [][Next]_vars

(***************************************************************************)
(* SpecOrigin: runs of main() with a page cap that leaves room for every   *)
(* link of the start page                                                  *)
(***************************************************************************)
OriginArgvSet ==
  {<<Tok(TRUE, "url"), Tok(FALSE, "http://a.com"),
     Tok(TRUE, "maxPages"), Tok(FALSE, ToString(MaxPagesArg + 1))>> \o c :
     c \in ConcurrencyArgs}

InitOrigin ==
  /\ pc = "start"
  /\ argv \in OriginArgvSet
  /\ puppeteerInstalled \in BOOLEAN
  /\ config = NoConfig
  /\ queue = <<>>
  /\ visited = {}
  /\ pages = <<>>
  /\ tasks = <<>>
  /\ openBrowsers = {}
  /\ fetchCount = <<>>
  /\ renderCount = <<>>
  /\ puppeteerSingleton = FALSE
  /\ settled = <<>>
  /\ exitCode = 0
  /\ dataset = NoDataset
  /\ outputs = 0
  /\ SideIdle

SpecOrigin == InitOrigin /\ [][Next]_vars

(***************************************************************************)
(* SpecPause: runs of main() over the values of --pauseMs                  *)
(***************************************************************************)
\* --pauseMs left out, without a value, zero, negative, no number, positive
PauseValues ==
  { <<>>,
    <<Tok(TRUE, "pauseMs")>>,
    <<Tok(TRUE, "pauseMs"), Tok(FALSE, "0")>>,
    <<Tok(TRUE, "pauseMs"), Tok(FALSE, "-5")>>,
    <<Tok(TRUE, "pauseMs"), Tok(FALSE, "soon")>>,
    <<Tok(TRUE, "pauseMs"), Tok(FALSE, "5")>> }

PauseArgvSet ==
  {<<Tok(TRUE, "url"), Tok(FALSE, "http://a.com"),
     Tok(TRUE, "maxPages"), Tok(FALSE, ToString(MaxPagesArg))>> \o c \o v :
     c \in ConcurrencyArgs, v \in PauseValues}

InitPause ==
  /\ pc = "start"
  /\ argv \in PauseArgvSet
  /\ puppeteerInstalled \in BOOLEAN
  /\ config = NoConfig
  /\ queue = <<>>
  /\ visited = {}
  /\ pages = <<>>
  /\ tasks = <<>>
  /\ openBrowsers = {}
  /\ fetchCount = <<>>
  /\ renderCount = <<>>
  /\ puppeteerSingleton = FALSE
  /\ settled = <<>>
  /\ exitCode = 0
  /\ dataset = NoDataset
  /\ outputs = 0
  /\ SideIdle

SpecPause == InitPause /\ [][Next]_vars

(***************************************************************************)
(* SpecLive: runs of main() in which every step that can be taken is taken *)
(* in the end: the event loop runs the code that is ready, the timer of    *)
(* the pause fires, and every fetch and render call returns (axios and     *)
(* puppeteer are given timeouts)                                           *)
(***************************************************************************)
LiveArgvSet ==
  {<<Tok(TRUE, "url"), Tok(FALSE, "http://a.com"),
     Tok(TRUE, "maxPages"), Tok(FALSE, ToString(MaxPagesArg))>> \o c :
     c \in ConcurrencyArgs}

InitLive ==
  /\ pc = "start"
  /\ argv \in LiveArgvSet
  /\ puppeteerInstalled \in BOOLEAN
  /\ config = NoConfig
  /\ queue = <<>>
  /\ visited = {}
  /\ pages = <<>>
  /\ tasks = <<>>
  /\ openBrowsers = {}
  /\ fetchCount = <<>>
  /\ renderCount = <<>>
  /\ puppeteerSingleton = FALSE
  /\ settled = <<>>
  /\ exitCode = 0
  /\ dataset = NoDataset
  /\ outputs = 0
  /\ SideIdle

\* the steps of main() up to the return of crawlSite
CrawlStep ==
  \/ MainStart
  \/ StartBatch
  \/ \E i \in 1..ConcurrencyMax : FetchReturn(i)
  \/ \E i \in 1..ConcurrencyMax : LaunchBrowser(i)
  \/ \E i \in 1..ConcurrencyMax : Navigate(i)
  \/ \E i \in 1..ConcurrencyMax : PageContent(i)
  \/ \E i \in 1..ConcurrencyMax : CloseBrowser(i)
  \/ CollectBatch
  \/ PauseDone
  \/ CrawlReturn

SpecLive == InitLive /\ [][Next]_vars /\ WF_vars(CrawlStep)

(***************************************************************************)
(* SpecFaq: buildFaqDataset on bounded lists of extracted pages            *)
(***************************************************************************)
MaxFaqPages == 2
MaxFaqsArg == 3

FaqArgvSet ==
  {<<Tok(TRUE, "url"), Tok(FALSE, "http://a.com"),
     Tok(TRUE, "maxFaqs"), Tok(FALSE, ToString(n))>> : n \in 1..MaxFaqsArg}

\* documents whose titles and headings collide once lower-cased and stripped
FaqTitles == {<<"F", "a", "q">>, <<"F", "A", "Q">>}
FaqHeadingLists ==
  { <<>>,
    << <<"F", "a", "q">> >>,
    << <<"F", "A", "Q", "?", ":">> >>,
    << <<"F", "a", "q">>, <<"f", "a", "q", " ", ":">> >>,
    << <<"F", "a", "q">>, <<"T", "e", "a", "m">> >> }
FaqDocs ==
  {Doc("rich", t,
       [i \in 1..Len(hs) |-> [heading |-> hs[i], content |-> Text(200, 45)]],
       <<>>, EmptyText, b, <<>>) :
     t \in FaqTitles, hs \in FaqHeadingLists, b \in {EmptyText, Text(260, 50)}}

InitFaq ==
  /\ pc = "faq0"
  /\ argv \in FaqArgvSet
  /\ config = buildConfig(parseArgs(argv))
  /\ pages = <<>>
  /\ dataset = NoDataset
  /\ queue = <<>>
  /\ visited = {}
  /\ tasks = <<>>
  /\ openBrowsers = {}
  /\ fetchCount = <<>>
  /\ renderCount = <<>>
  /\ puppeteerSingleton = FALSE
  /\ settled = <<>>
  /\ puppeteerInstalled = FALSE
  /\ exitCode = 0
  /\ outputs = 0
  /\ SideIdle

\* one more page, as extractPageContent builds it, joins the list
FaqAddPage ==
  /\ pc = "faq0"
  /\ Len(pages) < MaxFaqPages
  /\ \E doc \in FaqDocs :
       pages' = Append(pages, extractPageContent(doc, config.url, config))
  /\ UNCHANGED <<pc, argv, config, queue, visited, tasks, openBrowsers,
                 fetchCount, renderCount, puppeteerSingleton, settled,
                 puppeteerInstalled, exitCode, dataset, outputs, sideVars>>

FaqBuild ==
  /\ pc = "faq0"
  /\ dataset' = buildFaqDataset(pages, config)
  /\ pc' = "faq1"
  /\ UNCHANGED <<argv, config, crawlVars, exitCode, outputs, sideVars>>

NextFaq == FaqAddPage \/ FaqBuild

SpecFaq == InitFaq /\ [][NextFaq]_vars

\* every entry pushFaq was asked to add, in call order
RECURSIVE allEntries(_, _)
allEntries(pgs, cfg) ==
  IF pgs = <<>> THEN <<>> ELSE pageEntries(pgs[1], cfg) \o allEntries(Tail(pgs), cfg)

\* C3: the dataset returned by buildFaqDataset has at most maxFaqs entries.
C3_FaqCap ==
  pc = "faq1" => Len(dataset.faqs) <= config.maxFaqs

\* C3 witness: a dataset cut by the cap (more distinct questions than maxFaqs)
C3_Witness ==
  /\ pc = "faq1"
  /\ Len(dataset.faqs) = config.maxFaqs
  /\ Cardinality({toLowerCase(e.question) : e \in Range(allEntries(pages, config))})
       > config.maxFaqs

\* C4: no two entries of the dataset have questions that are equal after
\* lower-casing.
C4_UniqueQuestions ==
  pc = "faq1" =>
    \A i, j \in 1..Len(dataset.faqs) :
      i # j => toLowerCase(dataset.faqs[i].question)
                 # toLowerCase(dataset.faqs[j].question)

\* C4 witness: two pages whose titles differ only in case were both asked
\* for, and the dataset (not cut by the cap) holds one overview entry
C4_Witness ==
  /\ pc = "faq1"
  /\ Len(pages) = 2
  /\ pages[1].title # pages[2].title
  /\ pages[1].summary.len > 0 /\ pages[2].summary.len > 0
  /\ Len(dataset.faqs) < config.maxFaqs
  /\ Cardinality({i \in 1..Len(dataset.faqs) :
                    dataset.faqs[i].tags = <<<<"page-overview">>>>}) = 1

(***************************************************************************)
(* SpecPage: extractPageContent and buildFaqDataset on one bounded document *)
(***************************************************************************)
MaxHeadings == 2
MaxParas == 2

PageArgvSet ==
  { <<Tok(TRUE, "url"), Tok(FALSE, "http://a.com")>>,
    <<Tok(TRUE, "url"), Tok(FALSE, "http://a.com"),
      Tok(TRUE, "minSectionChars"), Tok(FALSE, "5")>> }

\* a heading with the text that follows it: long enough for the default
\* minimum, one short of it, far below it; or a heading without text
PageHeaded ==
  { [heading |-> <<"A">>, content |-> Text(180, 31)],
    [heading |-> <<"A">>, content |-> Text(179, 30)],
    [heading |-> <<"B">>, content |-> Text(50, 9)],
    [heading |-> <<>>, content |-> Text(180, 31)] }
PageParas == {Text(180, 31), Text(179, 30), Text(4, 1)}
PageExtras == {EmptyText, Text(50, 9), Text(200, 35)}

\* the text of <body>: the headings, what follows them, the paragraphs and
\* the rest, joined
bodyText(hs, ps, extra) ==
  joinTexts(SelectSeq(
    [i \in 1..Len(hs) |-> Text(Len(hs[i].heading), Len(hs[i].heading))]
    \o [i \in 1..Len(hs) |-> hs[i].content] \o ps \o <<extra>>,
    LAMBDA t : t.len > 0))

\* a document without title and links; <main>, when there is one, holds the
\* first word of the body
PageDoc(hs, ps, extra, hasMain) ==
  LET body == bodyText(hs, ps, extra)
  IN Doc("rich", <<>>, hs, ps,
         IF hasMain /\ body.len >= 4 THEN Text(3, 1) ELSE EmptyText,
         body, <<>>)

InitPage ==
  /\ pc = "page0"
  /\ argv \in PageArgvSet
  /\ config = buildConfig(parseArgs(argv))
  /\ \E hs \in UNION {[1..n -> PageHeaded] : n \in 0..MaxHeadings},
        ps \in UNION {[1..n -> PageParas] : n \in 0..MaxParas},
        extra \in PageExtras, hasMain \in BOOLEAN :
       pageHtml = PageDoc(hs, ps, extra, hasMain)
  /\ needsRender = FALSE
  /\ CrawlIdle
  /\ exitCode = 0
  /\ dataset = NoDataset
  /\ outputs = 0
  /\ NormIdle
  /\ TextIdle
  /\ ApiIdle

\* extractPageContent(html, url, config) on the document
PageExtract ==
  /\ pc = "page0"
  /\ pages' = <<extractPageContent(pageHtml, config.url, config)>>
  /\ pc' = "page1"
  /\ UNCHANGED <<argv, config, queue, visited, tasks, openBrowsers,
                 fetchCount, renderCount, puppeteerSingleton, settled,
                 puppeteerInstalled, exitCode, dataset, outputs, sideVars>>

\* buildFaqDataset on the one page
PageBuild ==
  /\ pc = "page1"
  /\ dataset' = buildFaqDataset(pages, config)
  /\ pc' = "page2"
  /\ UNCHANGED <<argv, config, crawlVars, exitCode, outputs, sideVars>>

NextPage == PageExtract \/ PageBuild

SpecPage == InitPage /\ [][NextPage]_vars

\* a heading, or a paragraph, of the document that passes the minimum
headingQualifies(doc, minChars) ==
  \E i \in 1..Len(doc.headed) :
    doc.headed[i].heading # <<>> /\ doc.headed[i].content.len >= minChars
paragraphQualifies(doc, minChars) ==
  \E i \in 1..Len(doc.paras) : doc.paras[i].len >= minChars
isKeyInsight(section) ==
  \E i \in 1..Len(pageHtml.paras) : section.heading = KeyInsight(i - 1)

\* C12: every section kept has a content of at least minSectionChars
\* characters, whichever path produced it; "Key Insight N" sections appear
\* only when no heading qualified, and the "Site Overview" section only when
\* neither a heading nor a paragraph qualified.
C12_SectionsMeetMinimum ==
  pc \in {"page1", "page2"} =>
    \A i \in 1..Len(pages[1].sections) :
      LET section == pages[1].sections[i]
      IN /\ section.content.len >= config.minSectionChars
         /\ isKeyInsight(section) =>
              ~headingQualifies(pageHtml, config.minSectionChars)
         /\ section.heading = SiteOverview =>
              /\ ~headingQualifies(pageHtml, config.minSectionChars)
              /\ ~paragraphQualifies(pageHtml, config.minSectionChars)

\* C12 witness: a heading whose text is one character short of the minimum
\* was dropped and the paragraph fallback produced the sections, itself
\* dropping a short paragraph
C12_Witness ==
  /\ pc = "page1"
  /\ \E i \in 1..Len(pageHtml.headed) :
       /\ pageHtml.headed[i].heading # <<>>
       /\ pageHtml.headed[i].content.len = config.minSectionChars - 1
  /\ \E i \in 1..Len(pageHtml.paras) :
       pageHtml.paras[i].len < config.minSectionChars
  /\ Len(pages[1].sections) = 1
  /\ isKeyInsight(pages[1].sections[1])

\* the page of C14: no headings, no links, a body text that is not empty
\* and shorter than minSectionChars
thinPage(doc, minChars) ==
  /\ doc.headed = <<>>
  /\ doc.hrefs = <<>>
  /\ doc.body.len > 0
  /\ doc.body.len < minChars

MaxTextLen == 5
MaxLimit == 3

\* a text is a sequence of one-character strings; "..." stands for the one
\* character U+2026
Ellipsis == "..."
TruncChars == {"a", ".", " "}

\* what cleanText returns: no space at either end, no two spaces in a row
isClean(text) ==
  /\ text # <<>> => (text[1] # " " /\ text[Len(text)] # " ")
  /\ \A i \in 1..(Len(text) - 1) : ~(text[i] = " " /\ text[i + 1] = " ")
TruncTexts ==
  {t \in UNION {[1..n -> TruncChars] : n \in 0..MaxTextLen} : isClean(t)}

\* shortened.lastIndexOf('.'): the index from 0, -1 when there is none
lastIndexOf(str, c) ==
  LET at == {i \in 1..Len(str) : str[i] = c}
  IN IF at = {} THEN -1 ELSE (CHOOSE i \in at : \A j \in at : j <= i) - 1

\* truncate(text, max) on the characters; lastPeriod > max * 0.6 is
\* 10 * lastPeriod > 6 * max
truncateChars(text, max) ==
  IF text = <<>> \/ Len(text) <= max THEN text
  ELSE LET shortened == SubSeq(text, 1, max)
           lastPeriod == lastIndexOf(shortened, ".")
       IN IF 10 * lastPeriod > 6 * max
          THEN trim(SubSeq(shortened, 1, lastPeriod + 1)) \o <<" ", Ellipsis>>
          ELSE trim(shortened) \o <<" ", Ellipsis>>

InitTruncate ==
  /\ pc = "trunc0"
  /\ tText \in TruncTexts
  /\ tMax \in 1..MaxLimit
  /\ tOut = <<>>
  /\ MainIdle
  /\ NormIdle
  /\ PageIdle
  /\ ApiIdle

Truncate ==
  /\ pc = "trunc0"
  /\ tOut' = truncateChars(tText, tMax)
  /\ pc' = "trunc1"
  /\ UNCHANGED <<tText, tMax, mainVars, normVars, pairVars, pageVars, apiVars>>

NextTruncate == Truncate

SpecTruncate == InitTruncate /\ [][NextTruncate]_vars

\* C13: for every text and limit, the result of truncate has at most
\* limit characters.
C13_TruncateWithinLimit ==
  pc = "trunc1" => Len(tOut) <= tMax

(***************************************************************************)
(* SpecRender: needsBrowserRender on bounded pages                         *)
(***************************************************************************)
MaxSectionCount == 3

\* the summaries tried, with their word counts: none; the 30 characters of
\* the example; one short of each threshold and on it; past both
RenderSummaries ==
  { EmptyText, Text(1, 1), Text(30, 5), Text(100, 20),
    Text(RenderSummaryMin - 1, RenderWordsMin - 1),
    Text(RenderSummaryMin - 1, RenderWordsMin),
    Text(RenderSummaryMin, RenderWordsMin - 1),
    Text(RenderSummaryMin, RenderWordsMin),
    Text(200, RenderWordsMin - 1), Text(200, 45), Text(300, RenderWordsMin),
    Text(SummaryMax, 1), Text(SummaryMax + 2, 90) }

\* a page as extractPageContent returns it, with n sections: wordCount is
\* the word count of the summary
RenderPage(n, summary) ==
  [url |-> SiteUrl(<<"">>),
   title |-> <<"P">>,
   summary |-> summary,
   sections |-> [i \in 1..n |->
                   [heading |-> KeyInsight(i - 1), content |-> Text(200, 45),
                    snippet |-> Text(200, 45)]],
   links |-> <<>>,
   wordCount |-> summary.words]

InitRender ==
  /\ pc = "render0"
  /\ \E n \in 0..MaxSectionCount, summary \in RenderSummaries :
       pages = <<RenderPage(n, summary)>>
  /\ pageHtml = EmptyHtml
  /\ needsRender = FALSE
  /\ argv = <<>>
  /\ config = NoConfig
  /\ queue = <<>>
  /\ visited = {}
  /\ tasks = <<>>
  /\ openBrowsers = {}
  /\ fetchCount = <<>>
  /\ renderCount = <<>>
  /\ puppeteerSingleton = FALSE
  /\ settled = <<>>
  /\ puppeteerInstalled = FALSE
  /\ exitCode = 0
  /\ dataset = NoDataset
  /\ outputs = 0
  /\ NormIdle
  /\ TextIdle
  /\ ApiIdle

\* needsBrowserRender(page)
NeedsRender ==
  /\ pc = "render0"
  /\ needsRender' = needsBrowserRender(pages[1])
  /\ pc' = "render1"
  /\ UNCHANGED <<pageHtml, mainVars, normVars, pairVars, textVars, apiVars>>

NextRender == NeedsRender

SpecRender == InitRender /\ [][NextRender]_vars

\* C21: needsBrowserRender is true exactly for a page without sections whose
\* summary has fewer than 160 characters or whose word count is below 40:
\* true for no sections and a summary of 30 characters, false for 3 sections
\* and a summary of 200 characters.
C21_RenderNeedExact ==
  pc = "render1" =>
    LET page == pages[1]
    IN /\ needsRender <=>
            /\ page.sections = <<>>
            /\ (page.summary.len < 160 \/ page.wordCount < 40)
       /\ (page.sections = <<>> /\ page.summary.len = 30) => needsRender
       /\ (Len(page.sections) = 3 /\ page.summary.len = 200) => ~needsRender

\* C21 witness: a page without sections whose summary is long enough but
\* has too few words, found in need of rendering
C21_Witness ==
  /\ pc = "render1"
  /\ pages[1].sections = <<>>
  /\ pages[1].summary.len >= 160
  /\ pages[1].wordCount < 40
  /\ needsRender

(***************************************************************************)
(* The videos endpoint at work: requests arrive, awaits settle              *)
(***************************************************************************)
MaxInFlight == 2
MaxRequests == 3
MaxArrivals == 4
MaxInstants == 2

\* the times at which requests arrive: a window length apart, so that a
\* request falls on the last millisecond of a window, and one millisecond
\* later, just past it
Instant(k) ==
  (k \div 2) * (RATE_LIMIT_WINDOW_MS + 1) + (k % 2) * RATE_LIMIT_WINDOW_MS

\* history: the admission times of the last window, one more at time t for ip
recent(times, t) == SelectSeq(times, LAMBDA x : x >= t - RATE_LIMIT_WINDOW_MS)
admit(adm, ip, t) ==
  [i \in DOMAIN adm \cup {ip} |->
     IF i = ip
     THEN Append(IF ip \in DOMAIN adm THEN recent(adm[ip], t) ELSE <<>>, t)
     ELSE adm[i]]

\* the invocation i has sent its response
settle(cs, i) == SubSeq(cs, 1, i - 1) \o SubSeq(cs, i + 1, Len(cs))

\* a request arrives and the handler runs to its response or its first await
Receive(req) ==
  LET h == handler(req, now, rateLimitBuckets)
  IN /\ rateLimitBuckets' = h.buckets
     /\ admitted' = IF h.admitted THEN admit(admitted, req.ip, now) ELSE admitted
     /\ IF "reply" \in DOMAIN h
        THEN lastReply' = h.reply /\ UNCHANGED calls
        ELSE /\ Len(calls) < MaxInFlight
             /\ calls' = Append(calls, h.call)
             /\ UNCHANGED lastReply
     /\ UNCHANGED <<now, videosJson, crawlerVars>>

\* getMetadataFromUrl settles: the metadata, or the YouTube API answers with
\* an error, which handlePostYouTube turns into a 400
MetadataDone(i) ==
  /\ i \in 1..Len(calls)
  /\ calls[i].st = "metadata"
  /\ \/ /\ calls' = [calls EXCEPT ![i].st = "read"]
        /\ UNCHANGED lastReply
     \/ /\ calls' = settle(calls, i)
        /\ lastReply' = Reply(calls[i].req, calls[i].at, 400, "YouTube API error",
                              TRUE, TRUE, calls[i].reads, calls[i].writes)
  /\ UNCHANGED <<now, rateLimitBuckets, videosJson, admitted, arrived, crawlerVars>>

\* readVideosJson settles and the handle* function runs to its next await
\* or to its response
ReadDone(i) ==
  /\ i \in 1..Len(calls)
  /\ calls[i].st = "read"
  /\ LET c == [calls[i] EXCEPT !.reads = @ + 1]
         r == readVideosJson(videosJson)
         videoIndex == findIndex(r.videos, c.req.id)
         answer(status, error) ==
           /\ calls' = settle(calls, i)
           /\ lastReply' = Reply(c.req, c.at, status, error, TRUE, TRUE,
                                 c.reads, c.writes)
     IN IF c.req.method = "GET" THEN answer(200, "")
        ELSE IF c.req.method = "POST"
        THEN /\ calls' = [calls EXCEPT ![i] =
                            [c EXCEPT !.st = "nextId", !.videos = r.videos,
                                      !.sha = r.sha]]
             /\ UNCHANGED lastReply
        ELSE IF videoIndex = 0 THEN answer(404, "Video not found")
        ELSE /\ calls' = [calls EXCEPT ![i] =
                            [c EXCEPT
                               !.st = "write",
                               !.sha = r.sha,
                               !.videos =
                                 IF c.req.method = "PUT"
                                 THEN [r.videos EXCEPT ![videoIndex].title =
                                         IF c.req.body.title # ""
                                         THEN c.req.body.title ELSE @]
                                 ELSE splice(r.videos, videoIndex)]]
             /\ UNCHANGED lastReply
  /\ UNCHANGED <<now, rateLimitBuckets, videosJson, admitted, arrived, crawlerVars>>

\* getNextVideoId settles (it reads the file again); the new video is
\* pushed onto the videos read before
NextIdDone(i) ==
  /\ i \in 1..Len(calls)
  /\ calls[i].st = "nextId"
  /\ LET c == calls[i]
         nextId == getNextVideoId(videosJson)
         newVideo == IF c.req.body.url # <<>>
                     THEN Video(nextId, "metadata.title",
                                extractYouTubeId(c.req.body.url))
                     ELSE Video(nextId, c.req.body.title, "")
     IN calls' = [calls EXCEPT ![i] =
                    [c EXCEPT !.st = "write", !.reads = @ + 1,
                              !.newVideo = newVideo,
                              !.videos = Append(@, newVideo)]]
  /\ UNCHANGED <<now, rateLimitBuckets, videosJson, lastReply, admitted, arrived,
                 crawlerVars>>

\* history: a commit was made; the invocations that hold a sha hold one
\* read before it
overtaken(cs) ==
  [j \in 1..Len(cs) |->
     IF cs[j].st \in {"nextId", "write"} THEN [cs[j] EXCEPT !.stale = TRUE]
     ELSE cs[j]]

\* writeVideosJson settles: committed, or refused by GitHub because the sha
\* is not the file's (the throw becomes a 500)
WriteDone(i) ==
  /\ i \in 1..Len(calls)
  /\ calls[i].st = "write"
  /\ LET c == [calls[i] EXCEPT !.writes = @ + 1]
     IN IF writeAccepted(videosJson, c.sha)
        THEN /\ videosJson' = File(c.videos)
             /\ lastReply' = Reply(c.req, c.at,
                                   IF c.req.method = "POST" THEN 201 ELSE 200, "",
                                   TRUE, TRUE, c.reads, c.writes)
             /\ calls' = settle(overtaken(calls), i)
        ELSE /\ UNCHANGED videosJson
             /\ lastReply' = Reply(c.req, c.at, 500, "GitHub API error",
                                   TRUE, TRUE, c.reads, c.writes)
             /\ calls' = settle(calls, i)
  /\ UNCHANGED <<now, rateLimitBuckets, admitted, arrived, crawlerVars>>

(***************************************************************************)
(* SpecApi: an administrator's requests on videos.json, overlapping        *)
(***************************************************************************)
AdminToken == Bearer(TRUE, Forever)
ApiRequests ==
  { Request("ip1", "GET", AdminToken, NoId, NoBody),
    Request("ip1", "POST", AdminToken, NoId, Body(NoUrl, "t1")),
    Request("ip1", "POST", AdminToken, NoId, Body(WatchUrl, "")),
    Request("ip1", "POST", AdminToken, NoId, Body(<<VideoId>>, "")),
    Request("ip1", "PUT", AdminToken, 1, Body(NoUrl, "t2")),
    Request("ip1", "DELETE", AdminToken, 1, NoBody) }

InitApi ==
  /\ pc = "api"
  /\ now = 0
  /\ rateLimitBuckets = <<>>
  /\ videosJson \in {NoFile, File(<<Video(1, "t1", "")>>)}
  /\ calls = <<>>
  /\ lastReply = NoReply
  /\ admitted = <<>>
  /\ arrived = 0
  /\ MainIdle
  /\ NormIdle
  /\ PageIdle
  /\ TextIdle

ApiReceive ==
  /\ arrived < MaxRequests
  /\ arrived' = arrived + 1
  /\ \E req \in ApiRequests : Receive(req)

NextApi ==
  \/ ApiReceive
  \/ \E i \in 1..MaxInFlight : MetadataDone(i)
  \/ \E i \in 1..MaxInFlight : ReadDone(i)
  \/ \E i \in 1..MaxInFlight : NextIdDone(i)
  \/ \E i \in 1..MaxInFlight : WriteDone(i)

SpecApi == InitApi /\ [][NextApi]_vars

\* C18: after any interleaving of add, update and delete requests, no two
\* videos of videos.json have the same id (GitHub refusing every write whose
\* sha is not the file's).
C18_UniqueIds ==
  \A i, j \in 1..Len(videosJson.videos) :
    i # j => videosJson.videos[i].id # videosJson.videos[j].id

\* C19: an add-YouTube request whose url is a full YouTube URL or a bare
\* 11-character video id passes validation, reaches the metadata extraction
\* and ends in 201, unless YouTube or GitHub fail it.
C19_UrlOrIdAccepted ==
  (/\ lastReply # NoReply
   /\ lastReply.req.method = "POST"
   /\ lastReply.req.body.url \in {WatchUrl, <<VideoId>>})
    => \/ lastReply.status = 201
       \/ lastReply.error \in {"YouTube API error", "GitHub API error"}

(***************************************************************************)
(* SpecRate: requests of two clients over several rate-limit windows       *)
(***************************************************************************)
\* a token that expires one millisecond after the first window
ExpiringToken == Bearer(TRUE, RATE_LIMIT_WINDOW_MS + 1)
ForgedToken == Bearer(FALSE, Forever)
Methods == {"GET", "POST", "PUT", "DELETE"}

RateRequests ==
  {Request("ip1", m, NoHeader, 1, NoBody) : m \in Methods} \cup
  { Request("ip1", "OPTIONS", NoHeader, NoId, NoBody),
    Request("ip1", "GET", BasicHeader, NoId, NoBody),
    Request("ip1", "GET", ForgedToken, NoId, NoBody),
    Request("ip1", "GET", ExpiringToken, NoId, NoBody),
    Request("ip1", "PATCH", ExpiringToken, NoId, NoBody),
    Request("ip2", "GET", NoHeader, NoId, NoBody) }
\* the request a client repeats
FloodRequest == Request("ip1", "GET", NoHeader, NoId, NoBody)

InitRate ==
  /\ pc = "api"
  /\ now = 0
  /\ rateLimitBuckets = <<>>
  /\ videosJson = File(<<Video(1, "t1", "")>>)
  /\ calls = <<>>
  /\ lastReply = NoReply
  /\ admitted = <<>>
  /\ arrived = 0
  /\ MainIdle
  /\ NormIdle
  /\ PageIdle
  /\ TextIdle

\* one request arrives
RateReceive ==
  /\ arrived < MaxArrivals
  /\ arrived' = arrived + 1
  /\ \E req \in RateRequests : Receive(req)

\* the handler called n times in a row with a request that it answers at
\* once: the Map, the history and the last response after that
RECURSIVE receiveAll(_, _, _, _, _)
receiveAll(req, n, at, buckets, adm) ==
  IF n = 0 THEN [buckets |-> buckets, admitted |-> adm, reply |-> NoReply]
  ELSE LET h == handler(req, at, buckets)
           adm1 == IF h.admitted THEN admit(adm, req.ip, at) ELSE adm
       IN IF n = 1
          THEN [buckets |-> h.buckets, admitted |-> adm1, reply |-> h.reply]
          ELSE receiveAll(req, n - 1, at, h.buckets, adm1)

\* a client sends one request short of the limit in a row
Flood ==
  /\ arrived < MaxArrivals
  /\ arrived' = arrived + 1
  /\ LET r == receiveAll(FloodRequest, RATE_LIMIT_MAX - 1, now,
                         rateLimitBuckets, admitted)
     IN /\ rateLimitBuckets' = r.buckets
        /\ admitted' = r.admitted
        /\ lastReply' = r.reply
  /\ UNCHANGED <<now, videosJson, calls, crawlerVars>>

\* time passes, to the next instant at which requests arrive
Tick ==
  /\ \E k \in 0..(MaxInstants - 1) :
       /\ now = Instant(k)
       /\ now' = Instant(k + 1)
  /\ admitted' = [ip \in DOMAIN admitted |-> recent(admitted[ip], now')]
  /\ UNCHANGED <<rateLimitBuckets, videosJson, calls, lastReply, arrived,
                 crawlerVars>>

NextRate ==
  \/ RateReceive
  \/ Flood
  \/ Tick
  \/ \E i \in 1..MaxInFlight : ReadDone(i)

SpecRate == InitRate /\ [][NextRate]_vars

\* the request carries no Bearer token that is signed and unexpired at t
lacksValidToken(req, t) ==
  \/ req.authorization.scheme # "Bearer"
  \/ ~req.authorization.signed
  \/ req.authorization.exp <= t

\* C16 as claimed: every GET, POST, PUT or DELETE request without a valid,
\* unexpired Bearer token is answered 401 and neither reads nor writes
\* videos.json; an OPTIONS request is served without a token.
C16_NoTokenIs401 ==
  lastReply # NoReply =>
    /\ (lastReply.req.method \in Methods /\ lacksValidToken(lastReply.req, lastReply.at))
         => /\ lastReply.status = 401
            /\ lastReply.reads = 0
            /\ lastReply.writes = 0
    /\ lastReply.req.method = "OPTIONS" => lastReply.status = 204

\* C16 amended: such a request is answered 401, or 429 when the bucket of
\* its IP is full, and in either case neither reads nor writes videos.json
\* nor reaches a handle* function; an OPTIONS request is served without a
\* token, with 204.
C16_NoTokenIs401Or429 ==
  /\ lastReply # NoReply =>
       /\ (lastReply.req.method \in Methods /\ lacksValidToken(lastReply.req, lastReply.at))
            => /\ lastReply.status \in {401, 429}
               /\ lastReply.status = 429 =>
                    /\ lastReply.req.ip \in DOMAIN rateLimitBuckets
                    /\ ~lastReply.authChecked
               /\ ~lastReply.routed
               /\ lastReply.reads = 0
               /\ lastReply.writes = 0
       /\ lastReply.req.method = "OPTIONS" => lastReply.status = 204
  /\ \A i \in 1..Len(calls) : ~lacksValidToken(calls[i].req, calls[i].at)

\* C16 witness: a token that was accepted in the first window is refused,
\* expired, with 401
C16_Witness ==
  /\ lastReply # NoReply
  /\ lastReply.req.authorization = ExpiringToken
  /\ lastReply.req.method = "GET"
  /\ lastReply.status = 401
  /\ lastReply.error = "Token expired"

\* the admissions of ip at or after time t
admittedSince(ip, t) ==
  IF ip \in DOMAIN admitted
  THEN Len(SelectSeq(admitted[ip], LAMBDA x : x >= t))
  ELSE 0

\* C17 as claimed: in no span of one minute are more than 10 requests of
\* one IP admitted; the others get 429 "Too many requests" and reach
\* neither verifyToken nor a handle* function.
C17_TenPerMinute ==
  /\ \A ip \in DOMAIN admitted :
       admittedSince(ip, now - RATE_LIMIT_WINDOW_MS + 1) <= RATE_LIMIT_MAX
  /\ (lastReply # NoReply /\ lastReply.status = 429) =>
       /\ lastReply.error = "Too many requests"
       /\ ~lastReply.authChecked
       /\ ~lastReply.routed

\* C17 amended: the limit is per window: the first request of an IP, or its
\* first after its window ended, opens a window of 60 seconds, and of the
\* requests of that IP that are not OPTIONS at most 10 are admitted while
\* the window is open; the others get 429 "Too many requests" and reach
\* neither verifyToken nor a handle* function.
C17_TenPerWindow ==
  /\ \A ip \in DOMAIN rateLimitBuckets :
       LET bucket == rateLimitBuckets[ip]
       IN now <= bucket.expiresAt =>
            /\ admittedSince(ip, bucket.expiresAt - RATE_LIMIT_WINDOW_MS)
                 <= RATE_LIMIT_MAX
            /\ admittedSince(ip, bucket.expiresAt - RATE_LIMIT_WINDOW_MS)
                 = bucket.count
  /\ (lastReply # NoReply /\ lastReply.status = 429) =>
       /\ lastReply.error = "Too many requests"
       /\ ~lastReply.authChecked
       /\ ~lastReply.routed
       /\ lastReply.reads = 0
       /\ lastReply.writes = 0
       /\ lastReply.req.method # "OPTIONS"

\* C17 witness: the window of ip1 holds its 10 admissions, the request after
\* them was answered 429, and ip2 is still served
C17_Witness ==
  /\ "ip1" \in DOMAIN rateLimitBuckets
  /\ rateLimitBuckets["ip1"].count = RATE_LIMIT_MAX
  /\ "ip2" \in DOMAIN rateLimitBuckets
  /\ rateLimitBuckets["ip2"].count = 1
  /\ lastReply # NoReply
  /\ lastReply.req.ip = "ip1"
  /\ lastReply.req.authorization = ExpiringToken
  /\ lastReply.at = RATE_LIMIT_WINDOW_MS
  /\ lastReply.status = 429

(***************************************************************************)
(* SpecNorm: normalizeUrl on bounded inputs                                *)
(***************************************************************************)
MaxSegments == 3

NormHosts == {<<"a", "com">>, <<"b", "org">>}
NormSegments == {"", "a", "b"}
NormPaths == UNION {[1..n -> NormSegments] : n \in 1..MaxSegments}
NormInputs ==
  {NullUrl} \cup
  {Url(h, p, q, f) : h \in NormHosts, p \in NormPaths,
                     q \in {"", "q=1"}, f \in {"", "top"}}

\* the URLs that differ from u only by their fragment and/or by one more
\* trailing slash on the path
NormFragments == {"", "top", "end"}
NormVariants(u) ==
  IF ~u.ok THEN {u}
  ELSE {[u EXCEPT !.frag = f, !.path = p] :
          f \in NormFragments, p \in {u.path, Append(u.path, "")}}

InitNorm ==
  /\ pc = "norm0"
  /\ nIn \in NormInputs
  /\ nOnce = NullUrl
  /\ nTwice = NullUrl
  /\ nOther \in NormVariants(nIn)
  /\ nOtherOnce = NullUrl
  /\ PageIdle
  /\ TextIdle
  /\ MainIdle
  /\ ApiIdle

NormFirst ==
  /\ pc = "norm0"
  /\ nOnce' = normalizeUrl(nIn)
  /\ pc' = "norm1"
  /\ UNCHANGED <<nIn, nTwice, pairVars, pageVars, textVars, apiVars, mainVars>>

NormSecond ==
  /\ pc = "norm1"
  /\ nTwice' = normalizeUrl(nOnce)
  /\ pc' = "norm2"
  /\ UNCHANGED <<nIn, nOnce, pairVars, pageVars, textVars, apiVars, mainVars>>

\* the variant is normalized as well
NormOther ==
  /\ pc = "norm2"
  /\ nOtherOnce' = normalizeUrl(nOther)
  /\ pc' = "norm3"
  /\ UNCHANGED <<normVars, nOther, pageVars, textVars, apiVars, mainVars>>

NextNorm == NormFirst \/ NormSecond \/ NormOther

SpecNorm == InitNorm /\ [][NextNorm]_vars

\* C10: normalizeUrl is idempotent: whenever normalizeUrl(u) is not null,
\* normalizing it again gives the same URL, also for paths that end in more
\* than one slash.
C10_Idempotent ==
  (pc = "norm2" /\ nOnce # NullUrl) => nTwice = nOnce

\* C11: two valid URLs that differ only by their fragment and/or by a
\* trailing slash on the path normalize to the same URL, and the root path
\* keeps its single slash.
C11_VariantsNormalizeAlike ==
  (pc = "norm3" /\ nIn.ok) =>
    /\ nOnce = nOtherOnce
    /\ (nIn.path = <<"">> => nOnce.path = <<"">>)

(***************************************************************************)
(* Claims about the run of main() (Spec)                                   *)
(***************************************************************************)
RootUrl == SiteUrl(<<"">>)
PageA == SiteUrl(<<"a">>)
PageB == SiteUrl(<<"b">>)
PageUrls(pgs) == {pgs[i].url : i \in 1..Len(pgs)}

\* C1: in one crawlSite run no normalized URL is passed to fetchHtml more
\* than once and none to fetchRenderedHtml more than once, every URL passed
\* is in visited, and so a URL that failed is not fetched or rendered again
\* when a later page links to it.
C1_AtMostOnce ==
  /\ \A u \in DOMAIN fetchCount : fetchCount[u] <= 1 /\ u \in visited
  /\ \A u \in DOMAIN renderCount : renderCount[u] <= 1 /\ u \in visited

\* C1 witness: /a was fetched once and gave no page; /b, processed after it,
\* gave a page that links to /a; the crawl is over
C1_Witness ==
  /\ pc = "build"
  /\ config.concurrency = 1
  /\ config.seedUrls = <<RootUrl>>
  /\ PageA \in visited /\ PageA \notin PageUrls(pages)
  /\ Count(fetchCount, PageA) = 1
  /\ \E i \in 1..Len(pages) : pages[i].url = PageB /\ PageA \in Range(pages[i].links)

\* C2: the page cap bounds the crawl result: len(pages) <= maxPages in every
\* state of crawlSite and in what it returns.
C2_PageCap ==
  config # NoConfig => Len(pages) <= config.maxPages

\* C5: when the crawl has ended with zero pages the run is in the fatal
\* error with a non-zero exit status, and neither buildFaqDataset nor
\* writeOutput has run.
C5_EmptyCrawlFatal ==
  (config # NoConfig /\ pc \in {"build", "write", "done", "error"} /\ Len(pages) = 0)
    => (pc = "error" /\ exitCode # 0 /\ dataset = NoDataset /\ outputs = 0)

\* C5 witness: rendering disabled, every seed fetched and failed
C5_Witness ==
  /\ pc = "error"
  /\ config # NoConfig
  /\ ~config.renderWithBrowser
  /\ Len(pages) = 0
  /\ Range(config.seedUrls) \subseteq DOMAIN fetchCount
  /\ renderCount = <<>>
  /\ exitCode = 1

\* C6: a failure of one task of a batch makes that task's result null and
\* nothing else: a step of one task changes no other task and neither stops
\* the crawl nor sets the exit code; when the batch is joined every non-null
\* result's page is appended, each of its links is in the queue unless it is
\* visited, off-origin or the cap is reached, and the loop goes on.
C6_FailureIsolated ==
  [][ /\ (pc = "await" /\ pc' = "await") =>
           /\ Cardinality({j \in 1..Len(tasks) : tasks'[j] # tasks[j]}) <= 1
           /\ exitCode' = exitCode
      /\ (pc = "await" /\ pc' # "await") =>
           LET ok == {i \in 1..Len(tasks) : tasks[i].result # NullResult}
           IN /\ pc' = "pause"
              /\ Len(pages') = Len(pages) + Cardinality(ok)
              /\ \A i \in ok :
                   /\ tasks[i].result.page \in Range(pages')
                   /\ \A l \in Range(tasks[i].result.links) :
                        \/ l \in Range(queue')
                        \/ l \in visited
                        \/ ~startsWithOrigin(l, config.origin)
                        \/ Len(pages') + Len(queue') >= config.maxPages
    ]_vars

\* C6 witness: the two seeds of the first batch were processed together, the
\* root failed, /a gave the page, its link /b is queued and the loop goes on
C6_Witness ==
  /\ pc = "pause"
  /\ config.concurrency = 2
  /\ visited = {RootUrl, PageA}
  /\ PageUrls(pages) = {PageA}
  /\ PageB \in Range(queue)

StaticPage(t) ==
  IF t.static # NoResponse /\ t.static.html.kind # "empty"
  THEN extractPageContent(t.static.html, t.nurl, config)
  ELSE NoPage

\* C7 as stated: whenever the renderer was invoked for a URL and returned
\* null, processPage produces no page for it, whatever the static fetch had
\* returned.
C7_RenderNullNoPage ==
  \A i \in 1..Len(tasks) :
    (tasks[i].st = "done" /\ tasks[i].rendered = "null")
      => tasks[i].result = NullResult

\* C7 amended: when the renderer returned null, processPage returns the page
\* extracted from the static HTML if the static fetch gave HTML, and null
\* only if it gave none.
C7_RenderNullKeepsStatic ==
  \A i \in 1..Len(tasks) :
    (tasks[i].st = "done" /\ tasks[i].rendered = "null")
      => tasks[i].result =
           IF StaticPage(tasks[i]) = NoPage THEN NullResult
           ELSE [page |-> StaticPage(tasks[i]), links |-> StaticPage(tasks[i]).links]

\* C7 witness: a launched browser failed, and the task kept its static page
C7_Witness ==
  \E i \in 1..Len(tasks) :
    /\ tasks[i].st = "done"
    /\ tasks[i].rendered = "null"
    /\ tasks[i].launched
    /\ tasks[i].result # NullResult

inRender(t) == t.st \in {"launching", "navigating", "content", "closing"}

\* C8: every open browser belongs to a render call that is still in flight
\* after its launch, so none is open once its call has returned, and there
\* are never more open browsers than render calls in flight.
C8_BrowsersScoped ==
  /\ \A b \in openBrowsers :
       \E i \in 1..Len(tasks) :
         tasks[i].nurl = b /\ tasks[i].st \in {"navigating", "content", "closing"}
  /\ Cardinality(openBrowsers) <= Cardinality({i \in 1..Len(tasks) : inRender(tasks[i])})

\* C8 witness: a render call that launched a browser and then failed has
\* returned, and its browser is closed
C8_Witness ==
  \E i \in 1..Len(tasks) :
    /\ tasks[i].st = "done"
    /\ tasks[i].launched
    /\ tasks[i].rendered = "null"
    /\ tasks[i].nurl \notin openBrowsers

\* C9: with --renderWithBrowser=false on the command line the config has
\* renderWithBrowser = false and the renderer is never invoked.
C9_FlagDisablesRendering ==
  (config # NoConfig /\ Tok(TRUE, "renderWithBrowser=false") \in Range(argv))
    => (~config.renderWithBrowser /\ renderCount = <<>>)

\* the tasks of the current batch that have not settled
inFlight(ts) == {i \in 1..Len(ts) : ts[i].st # "done"}

\* C15: whatever --concurrency says, the concurrency of the config is in
\* 1..5; never more than that many tasks are in flight; and tasks are
\* started only when no task of the batch before is still in flight.
C15_ConcurrencyBounded ==
  [][/\ config'.built =>
          /\ config'.concurrency \in ConcurrencyMin..ConcurrencyMax
          /\ Len(tasks') <= config'.concurrency
          /\ Cardinality(inFlight(tasks')) <= config'.concurrency
     /\ (tasks' # <<>> /\ queue' # queue) =>
          /\ inFlight(tasks) = {}
          /\ tasks = <<>>
          /\ Len(tasks') = Min(config.concurrency, Len(queue))]_vars

\* C15 witness: --concurrency 0 was supplied, and as many tasks as the
\* concurrency of the config are in flight while URLs wait in the queue
C15_Witness ==
  /\ pc = "await"
  /\ \E i \in 1..Len(argv) : argv[i] = Tok(FALSE, "0")
  /\ Cardinality(inFlight(tasks)) = config.concurrency
  /\ Len(queue) > 0

\* the task is past the point where processPage decides about rendering
decided(t) == ~t.skipped /\ t.st # "fetching" /\ ~t.threw

\* C20: for a URL processPage got as far as deciding on, the renderer is
\* invoked exactly when rendering is enabled and the URL carries __spaView,
\* or the static fetch failed or returned no HTML, or the static page meets
\* the render-need heuristic, or the static status is 400 or more; with
\* renderWithBrowser false it is never invoked; and a __spaView URL is never
\* fetched statically.
C20_RenderExactlyWhenNeeded ==
  /\ \A i \in 1..Len(tasks) :
       LET t == tasks[i]
           noHtml == t.static = NoResponse \/ t.static.html.kind = "empty"
       IN decided(t) =>
            (t.renderCalled <=>
               /\ config.renderWithBrowser
               /\ \/ getSpaViewId(t.nurl) # ""
                  \/ noHtml
                  \/ (~noHtml /\ needsBrowserRender(StaticPage(t)))
                  \/ (t.static # NoResponse /\ t.static.status >= 400))
  /\ (config # NoConfig /\ ~config.renderWithBrowser) => renderCount = <<>>
  /\ \A u \in DOMAIN fetchCount : getSpaViewId(u) = ""
  /\ \A i \in 1..Len(tasks) :
       getSpaViewId(tasks[i].nurl) # "" => tasks[i].st # "fetching"

\* C20 witness: a static page with sections and words enough, served with a
\* status of 400 or more, for which the renderer was invoked
C20_Witness ==
  \E i \in 1..Len(tasks) :
    /\ decided(tasks[i])
    /\ tasks[i].static # NoResponse
    /\ tasks[i].static.status >= 400
    /\ StaticPage(tasks[i]) # NoPage
    /\ ~needsBrowserRender(StaticPage(tasks[i]))
    /\ tasks[i].renderCalled
    /\ Count(renderCount, tasks[i].nurl) = 1

\* the URLs of the last n pages
lastUrls(pgs, n) == [i \in 1..n |-> pgs[Len(pgs) - n + i].url]
\* the tasks that resolved with a page, in the order of the batch
withPage(ts) == SelectSeq(ts, LAMBDA t : t.result # NullResult)

\* C22 as claimed: the pages of a batch are appended in the order in which
\* its tasks resolved.
C22_CompletionOrder ==
  (pc \in {"pause", "loop", "build"} /\ Len(settled) <= Len(pages))
    => lastUrls(pages, Len(settled)) = settled

\* C22 amended: the tasks of a batch are in the order in which their URLs
\* left the queue, and when the batch is joined the pages of its tasks are
\* appended in that order, whatever the order in which the tasks resolved.
C22_DequeueOrder ==
  [][/\ (pc = "loop" /\ pc' = "await") =>
          /\ Len(tasks') = Min(config.concurrency, Len(queue))
          /\ \A i \in 1..Len(tasks') : tasks'[i].url = queue[i]
     /\ (pc = "await" /\ pc' # "await") =>
          /\ Range(settled) = {withPage(tasks)[i].nurl : i \in 1..Len(withPage(tasks))}
          /\ pages' = pages \o [i \in 1..Len(withPage(tasks)) |-> withPage(tasks)[i].page]]_vars

\* C22 witness: the second seed resolved before the first, and the page of
\* the first precedes the page of the second
C22_Witness ==
  /\ pc = "pause"
  /\ Len(config.seedUrls) >= 2
  /\ settled = <<normalizeUrl(config.seedUrls[2]), normalizeUrl(config.seedUrls[1])>>
  /\ Len(pages) = 2
  /\ pages[1].url = normalizeUrl(config.seedUrls[1])
  /\ pages[2].url = normalizeUrl(config.seedUrls[2])

\* C23: while a task of the batch is in flight neither the queue nor pages
\* changes; pages changes only in the step after the join, the queue only
\* there, when the next batch is cut from it (no task exists then) and when
\* crawlSite fills it with the seeds.
C23_FrontierBetweenBatches ==
  [][/\ inFlight(tasks) # {} => (queue' = queue /\ pages' = pages)
     /\ pages' # pages =>
          /\ pc = "await" /\ pc' \in {"pause", "loop"}
          /\ \A i \in 1..Len(tasks) : tasks[i].st = "done"
     /\ queue' # queue =>
          \/ /\ pc = "await" /\ pc' \in {"pause", "loop"}
             /\ \A i \in 1..Len(tasks) : tasks[i].st = "done"
          \/ /\ pc = "loop" /\ pc' = "await"
             /\ tasks = <<>>
             /\ \E n \in 1..Len(queue) : queue' = SubSeq(queue, n + 1, Len(queue))
          \/ /\ pc = "start"
             /\ queue = <<>>
             /\ queue' = config'.seedUrls]_vars

\* C23 witness: one task has resolved with a page that has links, another
\* is still in flight, and nothing has been pushed or enqueued
C23_Witness ==
  /\ pc = "await"
  /\ pages = <<>>
  /\ \E i, j \in 1..Len(tasks) :
       /\ tasks[i].st = "done"
       /\ tasks[i].result # NullResult
       /\ tasks[i].result.links # <<>>
       /\ tasks[j].st \in {"fetching", "closing"}
       /\ queue = SubSeq(config.seedUrls, Len(tasks) + 1, Len(config.seedUrls))

\* the URLs the tasks of the batch started work on
startedUrls(ts) == {ts[i].nurl : i \in {k \in 1..Len(ts) : ~ts[k].skipped}}

\* C24 as claimed: a URL is marked visited only in the step after the join
\* and only for a result that did not fail, so every URL of the visited set
\* is the URL of a page of pages.
C24_VisitedOnlyAfterBatch ==
  \A u \in visited : u \in PageUrls(pages)

\* C24 amended: the visited set changes only in the step that starts the
\* tasks of a batch, each processPage testing and extending it before its
\* first await: every URL a task started work on is in it from then on,
\* whatever becomes of the task; no step changes it while a task is in
\* flight, and the step after the join does not change it.
C24_VisitedAtTaskStart ==
  [][/\ visited' # visited => (pc = "loop" /\ pc' = "await" /\ tasks = <<>>)
     /\ (pc = "loop" /\ pc' = "await") =>
          visited' = visited \cup startedUrls(tasks')
     /\ startedUrls(tasks') \subseteq visited'
     /\ inFlight(tasks) # {} => visited' = visited
     /\ (pc = "await" /\ pc' # "await") => visited' = visited]_vars

\* C24 witness: the batch has been joined, and a URL whose task was started
\* and gave no page is in the visited set
C24_Witness ==
  /\ pc = "pause"
  /\ Len(pages) = 1
  /\ \E u \in visited :
       /\ u \notin PageUrls(pages)
       /\ Count(fetchCount, u) = 1
       /\ Count(renderCount, u) = 1

\* C25: every URL that is in the queue, or was fetched or rendered, has the
\* origin of the start URL; a URL of a host that merely begins with the
\* start host is never enqueued, fetched or rendered.
C25_SameOriginOnly ==
  config # NoConfig =>
    \A u \in Range(queue) \cup DOMAIN fetchCount \cup DOMAIN renderCount :
      OriginOf(u) = config.origin

\* C26: when there are at most maxPages seeds, len(pages) + len(queue) is at
\* most maxPages in every state: a link is enqueued only while the sum is
\* below maxPages, so discovery does not raise it past maxPages.
C26_KnownWorkBounded ==
  (config # NoConfig /\ Len(config.seedUrls) <= config.maxPages)
    => Len(pages) + Len(queue) <= config.maxPages

(***************************************************************************)
(* Claims about buildFaqDataset (SpecFaq), continued                       *)
(***************************************************************************)
\* the entries of a walk whose lower-cased question did not occur before
firstOccurrences(walk) ==
  LET first(i) == \A j \in 1..(i - 1) :
                    toLowerCase(walk[j].question) # toLowerCase(walk[i].question)
      RECURSIVE From(_)
      From(i) == IF i > Len(walk) THEN <<>>
                 ELSE (IF first(i) THEN <<walk[i]>> ELSE <<>>) \o From(i + 1)
  IN From(1)

\* C27: the FAQ list is the first maxFaqs entries of the walk over the pages
\* in crawl order (the page overview, if the page has a summary, then its
\* sections in order) from which every entry whose lower-cased question
\* occurred earlier was dropped; each answer is cut to 1200 characters.
C27_DedupThenCap ==
  pc = "faq1" =>
    LET kept == firstOccurrences(allEntries(pages, config))
        n == IF Len(kept) < config.maxFaqs THEN Len(kept) ELSE config.maxFaqs
    IN /\ Len(dataset.faqs) = n
       /\ \A i \in 1..n :
            dataset.faqs[i] = [kept[i] EXCEPT !.answer = truncate(@, 1200)]
       /\ \A k \in 1..Len(pages) :
            LET es == allEntries(SubSeq(pages, k, k), config)
            IN /\ Len(es) = Len(pages[k].sections)
                              + (IF pages[k].summary.len > 0 THEN 1 ELSE 0)
               /\ (pages[k].summary.len > 0) =>
                    es[1].tags = <<<<"page-overview">>>>
               /\ \A i \in 1..Len(pages[k].sections) :
                    es[Len(es) - Len(pages[k].sections) + i].answer
                      = pages[k].sections[i].content

\* C27 witness: a question of the first maxFaqs entries of the walk repeats
\* an earlier one, and the list still has maxFaqs entries, the last of them
\* from the second page
C27_Witness ==
  /\ pc = "faq1"
  /\ Len(pages) = 2
  /\ Len(dataset.faqs) = config.maxFaqs
  /\ LET walk == allEntries(pages, config)
     IN /\ Len(walk) > config.maxFaqs
        /\ \E i, j \in 1..config.maxFaqs :
             /\ i < j
             /\ toLowerCase(walk[i].question) = toLowerCase(walk[j].question)
        /\ dataset.faqs[config.maxFaqs] \in
             Range(allEntries(SubSeq(pages, 2, 2), config))
        /\ dataset.faqs[config.maxFaqs] \notin
             Range(allEntries(SubSeq(pages, 1, 1), config))

(***************************************************************************)
(* Claims about the pause between batches (SpecPause)                      *)
(***************************************************************************)
\* the value --pauseMs was given, <<>> when it has none
pauseArg ==
  LET at == {i \in 1..Len(argv) : argv[i] = Tok(TRUE, "pauseMs")}
      i == CHOOSE k \in at : TRUE
  IN IF at = {} \/ i = Len(argv) THEN <<>> ELSE <<argv[i + 1].text>>

\* C28: after a batch is joined the crawl waits for the pause before it
\* tests the loop again, so no batch is dispatched straight after another;
\* this for every --pauseMs: a value that is zero, negative or no number
\* gives the default pause.
C28_PauseBetweenBatches ==
  [][/\ config'.built =>
          /\ config'.pauseMs > 0
          /\ pauseArg \in {<<"0">>, <<"-5">>, <<"soon">>}
               => config'.pauseMs = DefaultPauseMs
          /\ pauseArg = <<"5">> => config'.pauseMs = 5
     /\ (pc = "await" /\ pc' # "await") => pc' = "pause"
     /\ (pc' = "loop" /\ pc # "loop") => pc \in {"start", "pause"}
     /\ (pc' = "await" /\ pc # "await") => pc = "loop"]_vars

\* C28 witness: --pauseMs 0 was given, a batch has been joined, URLs wait in
\* the queue and the crawl is in the default pause
C28_Witness ==
  /\ pc = "pause"
  /\ pauseArg = <<"0">>
  /\ config.pauseMs = DefaultPauseMs
  /\ Len(pages) >= 1
  /\ Len(pages) < config.maxPages
  /\ queue # <<>>

(***************************************************************************)
(* Claims about termination (SpecLive)                                     *)
(***************************************************************************)
\* crawlSite has returned, or was never called because buildConfig threw
crawlOver == pc \in {"build", "write", "done", "error"}

\* C29: every fetch and render call returning in the end, crawlSite
\* returns in the end, for every maxPages, on a site that has no end and
\* whose URLs may fail.
C29_CrawlTerminates == <>crawlOver

\* C29 witness: crawlSite has returned with maxPages pages, a URL that
\* failed is among the visited ones, and a page of the endless part of the
\* site was extracted whose link further down was never visited
C29_Witness ==
  /\ pc = "build"
  /\ Len(pages) >= config.maxPages
  /\ \E u \in visited : u \notin PageUrls(pages)
  /\ \E i \in 1..Len(pages) : \E j \in 1..Len(pages[i].links) :
       /\ Last(pages[i].links[j].path) = "x"
       /\ pages[i].links[j] \notin visited

(***************************************************************************)
(* Claims about overlapping writes (SpecApi)                               *)
(***************************************************************************)
\* the step is writeVideosJson settling for the invocation i
writeSettles(i) ==
  /\ calls[i].st = "write"
  /\ calls' \in {settle(calls, i), settle(overtaken(calls), i)}

\* the file as the invocation read it when it took its sha
fileRead(c) == IF c.sha = NoSha THEN NoFile ELSE File(c.sha.of)

\* what the request of the invocation does to a list of videos
changeApplied(c, videos) ==
  IF c.req.method = "POST" THEN Append(videos, c.newVideo)
  ELSE IF c.req.method = "PUT"
  THEN [videos EXCEPT ![findIndex(videos, c.req.id)].title =
          IF c.req.body.title # "" THEN c.req.body.title ELSE @]
  ELSE splice(videos, findIndex(videos, c.req.id))

\* C30 as stated: when another request has committed between the read and
\* the write of an add, update or delete, the write is rejected, the
\* request answers 500 and videos.json is left as it is.
C30_StaleWriteRejected ==
  [][\A i \in 1..Len(calls) :
       (writeSettles(i) /\ calls[i].stale) =>
         (lastReply'.status = 500 /\ videosJson' = videosJson)]_vars

\* C30 amended: a write is rejected, with a 500 and videos.json left as it
\* is, exactly when videos.json is no longer as the request read it; a write
\* that is accepted, be it after other commits that brought the content
\* read back, replaces the content with the request's change applied to the
\* content it replaces, so that no committed change is lost.
C30_NoLostUpdate ==
  [][\A i \in 1..Len(calls) :
       writeSettles(i) =>
         IF fileRead(calls[i]) # videosJson
         THEN lastReply'.status = 500 /\ videosJson' = videosJson
         ELSE /\ lastReply'.status \in {200, 201}
              /\ videosJson' =
                   File(changeApplied(calls[i], videosJson.videos))]_vars

\* C30 witness: an update that found video 1 was overtaken by a delete; its
\* write was refused and videos.json is as the delete left it
C30_Witness ==
  /\ lastReply # NoReply
  /\ lastReply.req.method = "PUT"
  /\ lastReply.error = "GitHub API error"
  /\ lastReply.writes = 1
  /\ videosJson = File(<<>>)
====
